---- MODULE Spec2Model ----
(***************************************************************************)
(* Offer Discovery & Enrollment Engine (Chase Offers, clean rewrite) and   *)
(* the Amex Offers writer.  The model follows src/unnamed/part_000 lines   *)
(* 237-1234 (the second "Chase Offers.py") and src/amex/Amex-Offers.py.    *)
(*                                                                         *)
(* A sheet is a sequence of rows, row 1 being the header.  A data row is   *)
(* identified by its full tuple, abstracted to an integer: r in 1..NumKeys *)
(* is a row whose two date cells are in the canonical "%b %d, %Y" format   *)
(* (the only rows the engine itself produces); -r is the same row with a   *)
(* date cell in another parseable format (a residual denormalised row).    *)
(***************************************************************************)
EXTENDS Integers, Sequences, FiniteSets, TLC

\* ------------------------------------------------------------------ bounds
NumKeys         == 2   \* distinct canonical row tuples
NumFps          == 2   \* distinct tile fingerprints a page can show
NumCards        == 2   \* length of ACCOUNT_IDS in the modelled configuration
MaxBase         == 1   \* data rows in the sink at run start (Spec)
MaxPollTicks    == 2   \* iterations of the 2.0 s confirmation poll
ChunkBound      == 2   \* modelled value of APPEND_CHUNK_SIZE
MaxSheetRows    == 5   \* data rows in the sheet handed to dedupe_rows (SpecDedupe)
MaxTries        == 3   \* largest tries argument of robust_get (SpecNav)
NumEls          == 2   \* elements a lookup strategy can match (SpecFind)
NumHooks        == 2   \* modelled number of attribute selectors of extract_brand_smart
MaxTexts        == 1   \* texts in a list the page hands to an extraction helper
MaxPhrases      == 2   \* phrases in a terms text (SpecExpiry)
MaxDays         == 31  \* largest n of "expires in n days" (SpecExpiry)
MaxFpErrors     == 1   \* tile_fingerprint calls of a run that return a time stamp
HeaderCols      == 2   \* modelled length of the headers tuple handed to _ws
MaxBelow        == 2   \* data rows below row 1 in the worksheet _ws finds
PwLen           == 2   \* characters of the password (SpecTwoFa)
MaxClock        == 14  \* seconds of wait_for_post_login that are followed (SpecTwoFa)
MaxRefresh      == 2   \* largest AMEX_REFRESH_ROUNDS of the environment (SpecAmex)
MaxButtons      == 3   \* add buttons a loaded Amex page shows (SpecAmex)
MaxMarkFails    == 1   \* failures to mark a button processed per run (SpecAmex)
NumIcons        == 3   \* plus icons of the first Chase script's grid (SpecProcess)
MaxSkips        == 2   \* skipped iterations of process counted before the count wraps (SpecProcess)
MaxDateRows     == 1   \* data rows of the sheet whose date cells are normalized (SpecDates)

\* ------------------------------------------------------- program constants
APPEND_CHUNK_SIZE == ChunkBound
IdleLimit         == 3
SafetyClickCap    == 200
ProcessCardsCalls == 2
HomeTries         == 1
HubTries          == 2
HEADER            == 0

\* two full chunks and a partial one (900 rows with chunk size 400)
MaxFlushBuf == 2 * APPEND_CHUNK_SIZE + 1

\* ------------------------------------------------------------------ helpers
Min(a, b) == IF a < b THEN a ELSE b
Max(a, b) == IF a > b THEN a ELSE b
SeqToSet(s) == {s[i] : i \in DOMAIN s}
Count(s, x) == Cardinality({i \in DOMAIN s : s[i] = x})
SeqsUpTo(S, n) == UNION {[1..k -> S] : k \in 0..n}

CanonRows == 1..NumKeys
RawRows   == {0 - r : r \in CanonRows}
AllRows   == CanonRows \cup RawRows
Cards     == 1..NumCards

\* normalize_date_out on the Date Added / Expiration cells of a row
NormRow(r) == IF r < 0 THEN 0 - r ELSE r

\* OFFER_WS.get_all_values()[1:]
DataRows(sheet) == SubSeq(sheet, 2, Len(sheet))

\* Row tuples are numbered in the order in which a run first meets them: a row
\* met next is one whose number is in use already, or the lowest unused one.
KeysOf(rows) == {NormRow(r) : r \in rows}
NextRows(used) ==
    {r \in CanonRows : r \in KeysOf(used) \/ \A q \in CanonRows \ KeysOf(used) : r <= q}
InOrderOfUse(s) ==
    \A i \in DOMAIN s :
        NormRow(s[i]) \in NextRows({s[j] : j \in 1..(i - 1)})


\* ---------------------------------------------------------------- robust_get
\* What the browser does in one round: driver.get (with the current_url read
\* that follows it) succeeds, raises a WebDriverException, or raises something
\* else; the execute_script fallback succeeds or raises.
GetOutcomes == {"ok", "wde", "other"}
JsOutcomes  == {"ok", "fail"}
NavOutcome  == [get : GetOutcomes, js : JsOutcomes]

RECURSIVE robust_get_rounds(_, _, _, _)
robust_get_rounds(i, n, outs, log) ==
    IF i > n THEN [ret |-> "False", log |-> log]
    ELSE IF outs[i].get = "ok" THEN [ret |-> "True", log |-> Append(log, "get")]
    ELSE IF outs[i].get = "other" THEN [ret |-> "raise", log |-> Append(log, "get")]
    ELSE IF outs[i].js = "ok" THEN [ret |-> "True", log |-> log \o <<"get", "js">>]
    ELSE robust_get_rounds(i + 1, n, outs, log \o <<"get", "js">>)

robust_get(tries, outs) == robust_get_rounds(1, Max(1, tries), outs, <<>>)

\* the results robust_get can give for a tries argument
robust_get_results(tries) ==
    {robust_get(tries, o).ret : o \in [1..Max(1, tries) -> NavOutcome]}

\* -------------------------------------------------------------- flush_buffer
\* len(range(0, len(APPEND_BUFFER), APPEND_CHUNK_SIZE))
NumChunks(buf) == (Len(buf) + APPEND_CHUNK_SIZE - 1) \div APPEND_CHUNK_SIZE

\* APPEND_BUFFER[i:i + APPEND_CHUNK_SIZE] for i = (k-1) * APPEND_CHUNK_SIZE
ChunkAtShort(buf, k) ==
    SubSeq(buf, (k - 1) * APPEND_CHUNK_SIZE + 1, Min(k * APPEND_CHUNK_SIZE, Len(buf)) - 1)
ChunkAt(buf, k) ==
    SubSeq(buf, (k - 1) * APPEND_CHUNK_SIZE + 1, Min(k * APPEND_CHUNK_SIZE, Len(buf)))

\* the append_rows calls of one flush: failAt = 0 when no append fails,
\* otherwise the number of the chunk whose append raises
FlushCalls(buf, failAt) ==
    [k \in 1..(IF failAt = 0 THEN NumChunks(buf) ELSE failAt) |->
        [rows |-> ChunkAt(buf, k), ok |-> (failAt = 0 \/ k < failAt)]]

RECURSIVE AppendedRows(_)
AppendedRows(calls) ==
    IF calls = <<>> THEN <<>>
    ELSE (IF Head(calls).ok THEN Head(calls).rows ELSE <<>>) \o AppendedRows(Tail(calls))

RECURSIVE SentRows(_)
SentRows(calls) ==
    IF calls = <<>> THEN <<>> ELSE Head(calls).rows \o SentRows(Tail(calls))

\* finally: APPEND_BUFFER = []
BufferAfterFlush(buf, failAt) == <<>>

\* --------------------------------------------------------------- dedupe_rows
\* range(len(rows) - 1, 0, -1): the 0-based indices the scan visits
DedupeOrderForward(n) == [j \in 1..(n - 1) |-> j]
DedupeOrder(n) == [j \in 1..(n - 1) |-> n - j]

RECURSIVE DedupeScan(_, _, _, _)
DedupeScan(rows, order, seen, req) ==
    IF order = <<>> THEN req
    ELSE LET i   == Head(order)
             key == rows[i + 1]
         IN IF key \in seen
            THEN DedupeScan(rows, Tail(order), seen, Append(req, i))
            ELSE DedupeScan(rows, Tail(order), seen \cup {key}, req)

\* the deleteRange requests, each the 0-based startRowIndex of a one-row range
dedupe_requests(rows) == DedupeScan(rows, DedupeOrder(Len(rows)), {}, <<>>)

\* deleteRange with shiftDimension ROWS
DeleteRow(rows, i) ==
    IF i + 1 \in DOMAIN rows
    THEN SubSeq(rows, 1, i) \o SubSeq(rows, i + 2, Len(rows))
    ELSE rows

\* batch_update applies the requests in list order
RECURSIVE ApplyDeletes(_, _)
ApplyDeletes(rows, req) ==
    IF req = <<>> THEN rows ELSE ApplyDeletes(DeleteRow(rows, Head(req)), Tail(req))

\* ---------------------------------------------------------------------- state
VARIABLES
    pc,                   \* position of main / process_cards / the enrollment loop
    sink,                 \* the "Card Offers" worksheet, header row first
    filterEnd,            \* endRowIndex of the stored basic filter
    existing_rows,        \* process_cards: dedup ledger
    APPEND_BUFFER,
    CURRENT_CARD_BUFFER,
    per_card_rows, per_card_keys, processed_fps, added_total,
    idle_cycles, safety_clicks,
    picked_fp,            \* fingerprint of the picked tile
    navigated,
    pollTicks,            \* iterations of the confirmation poll so far
    cardIdx,              \* position in ACCOUNT_IDS
    roundNo,              \* which process_cards() call of main is running
    nav,                  \* one robust_get call: arguments and result (SpecNav)
    call,                 \* one call of a helper function: arguments and result
    tiles,                \* distinct tiles the page presents to a pass
    \* history variables
    sink0,                \* the data rows of the sink at run start
    fpErrors,             \* tile_fingerprint calls of the run that returned a
                          \* time stamp, counted up to MaxFpErrors
    emptyPolls,           \* consecutive empty polls of find_add_buttons up to now,
                          \* counted up to IdleLimit
    lastConfirm,          \* how the confirmation poll of the loop iteration ended
    attempted,            \* cards go_to_categories_for was called for, this call
    firstFailed,          \* first card skipped or failed in the running
                          \* process_cards call, 0 when none
    exitPath,             \* how main left its try body
    fatalFrom,            \* part of main's try body that was left
    lastFlush,            \* the latest flush_buffer call
    lastDedupe            \* the latest dedupe_rows call

envVars    == <<nav, call, tiles, sink0>>
sheetVars  == <<sink, filterEnd>>
bufVars    == <<APPEND_BUFFER, CURRENT_CARD_BUFFER>>
rowVars    == <<per_card_rows, per_card_keys, added_total>>
scanVars   == <<processed_fps, idle_cycles, safety_clicks, picked_fp, emptyPolls,
               fpErrors>>
pollVars   == <<navigated, pollTicks, lastConfirm>>
localVars  == <<rowVars, scanVars, pollVars>>
cardVars   == <<existing_rows, cardIdx, roundNo, attempted, firstFailed>>
exitVars   == <<exitPath, fatalFrom>>
opVars     == <<lastFlush, lastDedupe>>
vars == <<pc, envVars, sheetVars, bufVars, localVars, cardVars, exitVars,
          opVars>>


\* ----------------------------------------------------------------------- Init
NoFlush  == [done |-> FALSE, pre |-> <<>>, failAt |-> 0, calls |-> <<>>]
NoDedupe == [done |-> FALSE, pre |-> <<>>, req |-> <<>>, ret |-> 0]
NoNav    == [tries |-> 0, outs |-> <<>>, res |-> "none", log |-> <<>>]
NoCall   == [fn |-> "none"]

LocalsInit ==
    /\ per_card_rows = <<>> /\ per_card_keys = {} /\ added_total = 0
    /\ processed_fps = {} /\ idle_cycles = 0 /\ safety_clicks = 0
    /\ picked_fp = 0 /\ emptyPolls = 0
    /\ navigated = FALSE /\ pollTicks = 0 /\ lastConfirm = "none"

\* line 870: processed_fps is a local of enroll_all_offers_for_current_card,
\* a new empty set in every call
NewProcessedFpsKept == processed_fps
NewProcessedFps == {}

\* the locals of enroll_all_offers_for_current_card when its frame is gone
LocalsReset ==
    /\ per_card_rows' = <<>> /\ per_card_keys' = {} /\ added_total' = 0
    /\ processed_fps' = NewProcessedFps /\ idle_cycles' = 0 /\ safety_clicks' = 0
    /\ picked_fp' = 0 /\ emptyPolls' = 0 /\ fpErrors' = fpErrors
    /\ navigated' = FALSE /\ pollTicks' = 0 /\ lastConfirm' = "none"

CardsInit ==
    /\ existing_rows = {} /\ cardIdx = 1 /\ roundNo = 1
    /\ attempted = <<>> /\ firstFailed = 0

\* the locals of process_cards when its frame is gone
CardsReset ==
    /\ existing_rows' = {} /\ cardIdx' = 1 /\ roundNo' = 1
    /\ attempted' = <<>> /\ firstFailed' = 0

HistoryInit ==
    /\ exitPath = "none" /\ fatalFrom = "none"
    /\ lastFlush = NoFlush /\ lastDedupe = NoDedupe

\* module import (lines 322-355) followed by the call of main, on pages whose
\* tile texts tile_fingerprint can read (SpecPass has a pass on a page where it
\* cannot)
Init ==
    /\ pc = "start"
    /\ sink0 \in {s \in SeqsUpTo(AllRows, MaxBase) : InOrderOfUse(s)}
    /\ sink = <<HEADER>> \o sink0
    /\ filterEnd = Len(sink)
    /\ APPEND_BUFFER = <<>> /\ CURRENT_CARD_BUFFER = <<>>
    /\ nav = NoNav /\ call = NoCall /\ tiles = NumFps /\ fpErrors = MaxFpErrors
    /\ LocalsInit /\ CardsInit /\ HistoryInit

\* ------------------------------------------------------------------- main exit
\* the part of main's try body a position belongs to
PhaseOf(p) ==
    IF p \in {"start", "wait_login"} THEN "login"
    ELSE IF p = "load" THEN "ledger"
    ELSE IF p \in {"normalize", "dedupe", "reset_filter"} THEN "maintenance"
    ELSE "cards"

\* main lines 1214-1221: whatever way the try body is left (return, operator
\* interrupt, any other exception) the finally clause runs next
main_exit_skips_flush(path) ==
    /\ pc' = IF path = "interrupt" THEN "cleanup" ELSE "finally"
    /\ exitPath' = path
    /\ fatalFrom' = PhaseOf(pc)
    /\ CardsReset
main_exit(path) ==
    /\ pc' = "finally"
    /\ exitPath' = path
    /\ fatalFrom' = PhaseOf(pc)
    /\ CardsReset

TryPcs == {"start", "wait_login", "load", "nav", "enroll_start", "scan", "click",
           "poll", "record", "back", "post_loop", "normalize", "dedupe",
           "reset_filter"}
CardPcs == {"nav", "enroll_start", "scan", "click", "poll", "record", "back",
            "post_loop"}

\* KeyboardInterrupt while main is inside its try body
interrupt ==
    /\ pc \in TryPcs
    /\ main_exit("interrupt")
    /\ LocalsReset
    /\ UNCHANGED <<envVars, sheetVars, bufVars, opVars>>

\* main line 1194-1195: robust_get(CHASE_HOME_URL, tries=1); prefill_home_login
main_start ==
    /\ pc = "start"
    /\ \E r \in robust_get_results(HomeTries) :
          IF r = "raise"
          THEN main_exit("fatal")
          ELSE pc' = "wait_login" /\ UNCHANGED <<cardVars, exitVars>>
    /\ UNCHANGED <<envVars, sheetVars, bufVars, localVars, opVars>>

\* wait_for_post_login: True, False (timeout) or an error of on_dashboard
wait_for_post_login ==
    /\ pc = "wait_login"
    /\ \E r \in {"True", "False", "raise"} :
          CASE r = "True"  -> pc' = "load" /\ UNCHANGED <<cardVars, exitVars>>
            [] r = "False" -> main_exit("nologin")
            [] OTHER       -> main_exit("fatal")
    /\ UNCHANGED <<envVars, sheetVars, bufVars, localVars, opVars>>

\* ------------------------------------------------------------- process_cards
\* process_cards line 1092: the ledger is loaded from the sink
process_cards_load ==
    /\ pc = "load"
    /\ \/ /\ existing_rows' = SeqToSet(DataRows(sink))
          /\ cardIdx' = 1
          /\ attempted' = <<>> /\ firstFailed' = 0
          /\ pc' = "nav"
          /\ UNCHANGED <<roundNo, exitVars>>
       \/ main_exit("fatal")
    /\ UNCHANGED <<envVars, sheetVars, bufVars, localVars, opVars>>

\* main lines 1209-1211: the sheet maintenance calls in program order
MaintenanceOrderSwapped == <<"dedupe", "normalize", "reset_filter">>
MaintenanceOrder == <<"normalize", "dedupe", "reset_filter">>
StepAfter(step) ==
    LET i == CHOOSE k \in DOMAIN MaintenanceOrder : MaintenanceOrder[k] = step
    IN MaintenanceOrder[i + 1]

\* the for loop moves on (lines 1096, 1115); main calls process_cards twice
\* (lines 1203 and 1206) and then starts sheet maintenance
next_card(failed) ==
    IF cardIdx < NumCards
    THEN /\ pc' = "nav" /\ cardIdx' = cardIdx + 1 /\ roundNo' = roundNo
         /\ firstFailed' = IF failed /\ firstFailed = 0 THEN cardIdx ELSE firstFailed
         /\ existing_rows' = existing_rows
    ELSE /\ firstFailed' = 0
         /\ existing_rows' = {}
         /\ IF roundNo < ProcessCardsCalls
            THEN pc' = "load" /\ cardIdx' = cardIdx /\ roundNo' = roundNo + 1
            ELSE pc' = MaintenanceOrder[1] /\ cardIdx' = cardIdx /\ roundNo' = roundNo

\* lines 1108-1111: an Exception raised while a card is processed is logged
\* and the loop continues with the next card
card_error_propagates(tried) ==
    main_exit("fatal")
card_error(tried) ==
    /\ next_card(TRUE)
    /\ attempted' = tried
    /\ UNCHANGED exitVars

\* open_hub: robust_get(CHASE_OFFER_HUB, tries=2), then the hub shell poll
open_hub(navRet, shell) ==
    IF navRet # "True" THEN navRet ELSE shell

\* the readiness test of go_to_categories_for (lines 1061-1063, 1077-1079)
categories_ready_all(onCat, addButtons, catShell) == onCat /\ addButtons /\ catShell
categories_ready(onCat, addButtons, catShell) == onCat /\ (addButtons \/ catShell)

\* go_to_categories_for: hub, best-effort selection, route change, first
\* readiness wait (an error of current_url or categories_shell_present
\* propagates), then the nudge and second wait inside try/except
go_to_categories_result(hub, ready1, raise1, ready2) ==
    IF hub # "True" THEN hub
    ELSE IF ready1 THEN "True"
    ELSE IF raise1 THEN "raise"
    ELSE IF ready2 THEN "True" ELSE "False"

go_to_categories_outcomes ==
    {go_to_categories_result(open_hub(n, s),
                             categories_ready(c1, a1, h1), x1,
                             categories_ready(c2, a2, h2)) :
        n \in robust_get_results(HubTries), s \in {"True", "False", "raise"},
        c1 \in BOOLEAN, a1 \in BOOLEAN, h1 \in BOOLEAN, x1 \in BOOLEAN,
        c2 \in BOOLEAN, a2 \in BOOLEAN, h2 \in BOOLEAN}

\* lines 1044-1086 on one page: what each step of the call meets.  The result of
\* select_account_by_id is dropped (line 1047); the nudge of lines 1069-1082
\* waits a second time only when a categories link is found.
go_to_categories_on(in) ==
    go_to_categories_result(open_hub(in.nav, in.shell),
                            categories_ready(in.c1, in.a1, in.h1), in.x1,
                            in.link /\ categories_ready(in.c2, in.a2, in.h2))

\* the readiness waits (lines 1059, 1075) the call runs
readiness_waits(in) ==
    IF open_hub(in.nav, in.shell) # "True" THEN 0
    ELSE IF categories_ready(in.c1, in.a1, in.h1) \/ in.x1 \/ ~in.link THEN 1
    ELSE 2

\* the outcome of the call process_cards makes: the one computed for the page
\* held in call when there is one, any outcome otherwise
CallOutcomes ==
    IF call.fn = "go_to_categories_for" THEN {call.res}
    ELSE go_to_categories_outcomes

\* process_cards lines 1099-1102
go_to_categories_for ==
    /\ pc = "nav"
    /\ \E r \in CallOutcomes :
          CASE r = "True"  -> /\ pc' = "enroll_start"
                              /\ attempted' = Append(attempted, cardIdx)
                              /\ UNCHANGED <<existing_rows, cardIdx, roundNo,
                                             firstFailed, exitVars>>
            [] r = "False" -> /\ next_card(TRUE)
                              /\ attempted' = Append(attempted, cardIdx)
                              /\ UNCHANGED exitVars
            [] OTHER       -> card_error(Append(attempted, cardIdx))
    /\ UNCHANGED <<envVars, sheetVars, bufVars, localVars, opVars>>


\* ------------------------------------------ enroll_all_offers_for_current_card
\* lines 866-885: buffers and locals of a new pass
enroll_start ==
    /\ pc = "enroll_start"
    /\ CURRENT_CARD_BUFFER' = <<>>
    /\ LocalsReset
    /\ pc' = "scan"
    /\ UNCHANGED <<envVars, sheetVars, APPEND_BUFFER, cardVars, exitVars, opVars>>

\* line 917: a poll that picked an element resets the idle counter
IdleAfterPickKept(idle) == idle
IdleAfterPick(idle) == 0

\* lines 938 and 985: the picked tile's fingerprint joins the processed set
MarkProcessedForgotten(fps, fp) == fps
MarkProcessed(fps, fp) == fps \cup {fp}

\* the tiles of the page, numbered in the order in which a pass first picks
\* them
Fps == 1..tiles
\* tile_fingerprint (lines 830-836): the tile's normalised text, which stands
\* for the tile, or str(time.time()) when the text cannot be read: a value no
\* other call returns, written as the negated tile number
tile_fingerprint(tile, readable) == IF readable THEN tile ELSE 0 - tile
TileOf(fp) == IF fp < 0 THEN 0 - fp ELSE fp
TilesOf(fps) == {TileOf(f) : f \in fps}
\* line 898: a button whose tile fingerprint is processed is hidden and skipped
Unprocessed(done) == Fps \ done
\* the tile picked next: one met before whose text is not in the processed set,
\* or the first tile not met before
NextFps(done) ==
    {f \in Unprocessed(done) :
        \/ f \in TilesOf(done)
        \/ \A g \in Unprocessed(done) \ TilesOf(done) : f <= g}

\* lines 918-921: the safety stop
SafetyStopNever(clicks) == FALSE
SafetyStop(clicks) == clicks > SafetyClickCap

\* lines 888-923: one poll of find_add_buttons and the pick of the first
\* button whose tile fingerprint is not processed.  is_displayed (line 785)
\* and picked_tile.text (line 923) are outside any try.
enroll_scan ==
    /\ pc = "scan"
    /\ \/ /\ card_error(attempted)
          /\ LocalsReset
       \/ /\ idle_cycles' = idle_cycles + 1
          /\ emptyPolls' = Min(emptyPolls + 1, IdleLimit)
          /\ lastConfirm' = "none"
          /\ pc' = IF idle_cycles + 1 >= IdleLimit THEN "post_loop" ELSE "scan"
          /\ UNCHANGED <<rowVars, processed_fps, safety_clicks, picked_fp, fpErrors,
                         navigated, pollTicks, cardVars, exitVars>>
       \/ \E tile \in NextFps(processed_fps), readable \in BOOLEAN :
             /\ readable \/ fpErrors < MaxFpErrors
             /\ fpErrors' = IF readable THEN fpErrors ELSE fpErrors + 1
             /\ idle_cycles' = IdleAfterPick(idle_cycles)
             /\ safety_clicks' = safety_clicks + 1
             /\ emptyPolls' = 0
             /\ lastConfirm' = "none"
             /\ picked_fp' = tile_fingerprint(tile, readable)
             /\ pc' = IF SafetyStop(safety_clicks + 1) THEN "post_loop" ELSE "click"
             /\ UNCHANGED <<rowVars, processed_fps, navigated, pollTicks, cardVars,
                            exitVars>>
    /\ UNCHANGED <<envVars, sheetVars, bufVars, opVars>>

\* lines 936-946: click_add_target never raises; a failed click marks the
\* tile processed and the loop continues
enroll_click ==
    /\ pc = "click"
    /\ \/ /\ pc' = "poll"
          /\ navigated' = FALSE /\ pollTicks' = 0
          /\ UNCHANGED <<processed_fps, lastConfirm>>
       \/ /\ processed_fps' = MarkProcessed(processed_fps, picked_fp)
          /\ pc' = "scan"
          /\ UNCHANGED pollVars
    /\ UNCHANGED <<envVars, sheetVars, bufVars, rowVars, idle_cycles, safety_clicks,
                   picked_fp, emptyPolls, fpErrors, cardVars, exitVars, opVars>>

\* lines 946-953: one iteration of the confirmation poll; find_elements is
\* outside any try; close_enroll_error_if_present changes nothing here
enroll_poll ==
    /\ pc = "poll"
    /\ pollTicks < MaxPollTicks
    /\ \/ /\ card_error(attempted)
          /\ LocalsReset
       \/ /\ navigated' = TRUE
          /\ lastConfirm' = "detail"
          /\ pc' = "record"
          /\ UNCHANGED <<pollTicks, rowVars, scanVars, cardVars, exitVars>>
       \/ /\ pollTicks' = pollTicks + 1
          /\ IF pollTicks + 1 >= MaxPollTicks
             THEN pc' = "record" /\ lastConfirm' = "timeout"
             ELSE pc' = "poll" /\ lastConfirm' = lastConfirm
          /\ UNCHANGED <<navigated, rowVars, scanVars, cardVars, exitVars>>
    /\ UNCHANGED <<envVars, sheetVars, bufVars, opVars>>

\* the rows a tile can yield: the row of an offer met before in the run (in the
\* sink, the ledger or a pending buffer) or the row of a new offer
offer_rows ==
    NextRows(SeqToSet(DataRows(sink)) \cup existing_rows
             \cup SeqToSet(APPEND_BUFFER) \cup SeqToSet(CURRENT_CARD_BUFFER))

\* lines 969 and 983: added_total counts the rows that were queued
AddedAfterAnyRow(total, fresh) == total + 1
AddedAfter(total, fresh) == IF fresh THEN total + 1 ELSE total

\* lines 966-969 and 980-983: the row is queued unless its key is in the ledger.
\* Once the row is built the poll's locals (t1, navigated) are dead until lines
\* 945-946 assign them again; the steps that follow drop their values.
record_row(row) ==
    LET fresh == row \notin existing_rows /\ row \notin per_card_keys
    IN /\ added_total' = AddedAfter(added_total, fresh)
       /\ IF fresh
          THEN /\ per_card_rows' = Append(per_card_rows, row)
               /\ CURRENT_CARD_BUFFER' = Append(CURRENT_CARD_BUFFER, row)
               /\ per_card_keys' = per_card_keys \cup {row}
               /\ existing_rows' = existing_rows \cup {row}
          ELSE UNCHANGED <<per_card_rows, CURRENT_CARD_BUFFER, per_card_keys,
                           existing_rows>>

\* lines 955-969: detail path; read_detail_text_quick calls find_elements
\* outside any try, before the row is built
enroll_record_detail ==
    /\ pc = "record" /\ navigated
    /\ \/ /\ card_error(attempted)
          /\ LocalsReset
          /\ UNCHANGED bufVars
       \/ /\ \E row \in offer_rows : record_row(row)
          /\ pc' = "back"
          /\ pollTicks' = 0
          /\ UNCHANGED <<APPEND_BUFFER, scanVars, navigated, lastConfirm, cardIdx,
                         roundNo, attempted, firstFailed, exitVars>>
    /\ UNCHANGED <<envVars, sheetVars, opVars>>

\* lines 970-971 and 985: quick_back is outside any try
enroll_back ==
    /\ pc = "back"
    /\ \/ /\ card_error(attempted)
          /\ LocalsReset
       \/ /\ processed_fps' = MarkProcessed(processed_fps, picked_fp)
          /\ pc' = "scan"
          /\ navigated' = FALSE /\ pollTicks' = 0 /\ lastConfirm' = "none"
          /\ UNCHANGED <<rowVars, idle_cycles, safety_clicks, picked_fp, emptyPolls, fpErrors,
                         cardVars, exitVars>>
    /\ UNCHANGED <<envVars, sheetVars, bufVars, opVars>>

\* lines 972-985: tile-only path after the confirmation poll timed out
enroll_record_tile ==
    /\ pc = "record" /\ ~navigated
    /\ \E row \in offer_rows : record_row(row)
    /\ processed_fps' = MarkProcessed(processed_fps, picked_fp)
    /\ pc' = "scan"
    /\ pollTicks' = 0
    /\ UNCHANGED <<envVars, sheetVars, APPEND_BUFFER, idle_cycles, safety_clicks,
                   picked_fp, emptyPolls, fpErrors, navigated, lastConfirm, cardIdx, roundNo,
                   attempted, firstFailed, exitVars, opVars>>

\* lines 987-998 and process_cards lines 1104-1107: the card's rows go to the
\* sink; the except clause covers both append_rows and reset_filters_full_range
enroll_finish ==
    /\ pc = "post_loop"
    /\ IF per_card_rows = <<>>
       THEN UNCHANGED <<sheetVars, bufVars>>
       ELSE \/ /\ sink' = sink \o per_card_rows
               /\ CURRENT_CARD_BUFFER' = <<>>
               /\ filterEnd' = Max(1, Len(sink'))
               /\ UNCHANGED APPEND_BUFFER
            \/ /\ sink' = sink \o per_card_rows
               /\ CURRENT_CARD_BUFFER' = <<>>
               /\ APPEND_BUFFER' = APPEND_BUFFER \o per_card_rows
               /\ UNCHANGED filterEnd
            \/ /\ APPEND_BUFFER' = APPEND_BUFFER \o per_card_rows
               /\ UNCHANGED <<sheetVars, CURRENT_CARD_BUFFER>>
    /\ next_card(FALSE)
    /\ LocalsReset
    /\ UNCHANGED <<envVars, attempted, exitVars, opVars>>

\* ------------------------------------------------------------ sheet maintenance
\* normalize_sheet_dates: the 1-based sheet rows with a date cell to rewrite
DateUpdates(rows) ==
    LET idx == {i \in 2..Len(rows) : NormRow(rows[i]) # rows[i]}
    IN idx

\* the update_cell calls run in row order; one that raises ends main's try body
normalize_sheet_dates ==
    /\ pc = "normalize"
    /\ \E done \in SUBSET DateUpdates(sink), ok \in BOOLEAN :
          /\ \A i \in done, j \in DateUpdates(sink) : j < i => j \in done
          /\ ok => done = DateUpdates(sink)
          /\ sink' = [i \in DOMAIN sink |-> IF i \in done THEN NormRow(sink[i]) ELSE sink[i]]
          /\ IF ok THEN pc' = StepAfter("normalize") /\ UNCHANGED <<cardVars, exitVars>>
                   ELSE main_exit("fatal")
    /\ UNCHANGED <<envVars, filterEnd, bufVars, localVars, opVars>>

\* dedupe_rows: get_all_values, the reverse scan, one batch_update
dedupe_rows ==
    /\ pc = "dedupe"
    /\ \/ /\ sink' = ApplyDeletes(sink, dedupe_requests(sink))
          /\ lastDedupe' = [done |-> TRUE, pre |-> sink,
                            req |-> dedupe_requests(sink),
                            ret |-> Len(dedupe_requests(sink))]
          /\ pc' = StepAfter("dedupe")
          /\ UNCHANGED <<cardVars, exitVars>>
       \/ /\ main_exit("fatal")
          /\ UNCHANGED <<sink, lastDedupe>>
    /\ UNCHANGED <<envVars, filterEnd, bufVars, localVars, lastFlush>>

\* reset_filters_full_range as main's last maintenance step (line 1211)
reset_filters_full_range ==
    /\ pc = "reset_filter"
    /\ \/ /\ filterEnd' = Max(1, Len(sink))
          /\ main_exit("normal")
       \/ /\ main_exit("fatal")
          /\ UNCHANGED filterEnd
    /\ UNCHANGED <<envVars, sink, bufVars, localVars, opVars>>

\* ----------------------------------------------------------------- flush_buffer
\* lines 1166-1168: the rows of an unfinished card join the pending rows
FlushInputAppendOnly(ab, cb) == ab
FlushInput(ab, cb) == IF cb # <<>> THEN ab \o cb ELSE ab

\* flush_buffer, lines 1164-1183, called from main's finally clause
flush_buffer ==
    /\ pc = "finally"
    /\ LET merged == FlushInput(APPEND_BUFFER, CURRENT_CARD_BUFFER)
       IN /\ CURRENT_CARD_BUFFER' = <<>>
          /\ IF merged = <<>>
             THEN /\ APPEND_BUFFER' = merged
                  /\ lastFlush' = [done |-> TRUE, pre |-> merged, failAt |-> 0,
                                   calls |-> <<>>]
                  /\ UNCHANGED sheetVars
             ELSE \E failAt \in 0..NumChunks(merged), resetOk \in BOOLEAN :
                  /\ sink' = sink \o AppendedRows(FlushCalls(merged, failAt))
                  /\ filterEnd' = IF failAt = 0 /\ resetOk
                                  THEN Max(1, Len(sink')) ELSE filterEnd
                  /\ APPEND_BUFFER' = BufferAfterFlush(merged, failAt)
                  /\ lastFlush' = [done |-> TRUE, pre |-> merged, failAt |-> failAt,
                                   calls |-> FlushCalls(merged, failAt)]
    /\ pc' = "cleanup"
    /\ UNCHANGED <<envVars, localVars, cardVars, exitVars, lastDedupe>>

\* main lines 1222-1230: with CLOSE_ON_EXIT quit the browser, otherwise block
\* until the operator's Ctrl+C
main_cleanup ==
    /\ pc = "cleanup"
    /\ \E CLOSE_ON_EXIT \in BOOLEAN :
          pc' = IF CLOSE_ON_EXIT THEN "exited" ELSE "blocked"
    /\ UNCHANGED <<envVars, sheetVars, bufVars, localVars, cardVars, exitVars,
                   opVars>>

main_unblock ==
    /\ pc = "blocked"
    /\ pc' = "exited"
    /\ UNCHANGED <<envVars, sheetVars, bufVars, localVars, cardVars, exitVars,
                   opVars>>

Next ==
    \/ main_start \/ wait_for_post_login \/ process_cards_load
    \/ go_to_categories_for \/ enroll_start \/ enroll_scan \/ enroll_click
    \/ enroll_poll \/ enroll_record_detail \/ enroll_back \/ enroll_record_tile
    \/ enroll_finish \/ normalize_sheet_dates \/ dedupe_rows
    \/ reset_filters_full_range \/ interrupt \/ flush_buffer \/ main_cleanup
    \/ main_unblock

Spec == Init /\ [][Next]_vars


\* ------------------------------------------------- flush_buffer on any buffer
\* main has reached its finally clause with some rows pending
InitFlush ==
    /\ pc = "finally"
    /\ sink0 = <<>>
    /\ sink = <<HEADER>>
    /\ filterEnd = 1
    /\ APPEND_BUFFER \in SeqsUpTo(CanonRows, MaxFlushBuf)
    /\ CURRENT_CARD_BUFFER \in SeqsUpTo(CanonRows, 1)
    /\ nav = NoNav /\ call = NoCall /\ tiles = NumFps /\ fpErrors = 0
    /\ LocalsInit /\ CardsInit
    /\ exitPath = "interrupt" /\ fatalFrom = "cards"
    /\ lastFlush = NoFlush /\ lastDedupe = NoDedupe

NextFlush == flush_buffer \/ main_cleanup \/ main_unblock

SpecFlush == InitFlush /\ [][NextFlush]_vars

\* --------------------------------------------------- dedupe_rows on any sheet
InitDedupe ==
    /\ pc = "dedupe"
    /\ sink0 \in SeqsUpTo(AllRows, MaxSheetRows)
    /\ sink = <<HEADER>> \o sink0
    /\ filterEnd = 1
    /\ APPEND_BUFFER = <<>> /\ CURRENT_CARD_BUFFER = <<>>
    /\ nav = NoNav /\ call = NoCall /\ tiles = NumFps /\ fpErrors = 0
    /\ LocalsInit /\ CardsInit /\ HistoryInit

NextDedupe == dedupe_rows \/ reset_filters_full_range

SpecDedupe == InitDedupe /\ [][NextDedupe]_vars

\* ------------------------------------------------------- robust_get, any call
\* Amex-Offers.py robust_get: one direct attempt, except WebDriverException
amex_robust_get(out) ==
    IF out = "ok" THEN "True" ELSE IF out = "wde" THEN "False" ELSE "raise"

InitNav ==
    /\ pc = "nav_call"
    /\ sink0 = <<>>
    /\ sink = <<HEADER>>
    /\ filterEnd = 1
    /\ APPEND_BUFFER = <<>> /\ CURRENT_CARD_BUFFER = <<>>
    /\ \E t \in 0..MaxTries :
          nav \in {[tries |-> t, outs |-> o, res |-> "none", log |-> <<>>] :
                      o \in [1..Max(1, t) -> NavOutcome]}
    /\ call = NoCall /\ tiles = NumFps /\ fpErrors = 0
    /\ LocalsInit /\ CardsInit /\ HistoryInit

robust_get_call ==
    /\ pc = "nav_call"
    /\ nav' = [nav EXCEPT !.res = robust_get(nav.tries, nav.outs).ret,
                          !.log = robust_get(nav.tries, nav.outs).log]
    /\ pc' = "nav_done"
    /\ UNCHANGED <<call, tiles, sink0, sheetVars, bufVars, localVars, cardVars,
                   exitVars, opVars>>

amex_robust_get_call ==
    /\ pc = "nav_call"
    /\ nav' = [nav EXCEPT !.res = amex_robust_get(nav.outs[1].get),
                          !.log = <<"get">>]
    /\ pc' = "nav_done_amex"
    /\ UNCHANGED <<call, tiles, sink0, sheetVars, bufVars, localVars, cardVars,
                   exitVars, opVars>>

NextNav == robust_get_call \/ amex_robust_get_call

SpecNav == InitNav /\ [][NextNav]_vars


\* ------------------------------------------------- helper functions, any call
\* the program is not running: a helper is called on its own
Idle ==
    /\ sink0 = <<>>
    /\ sink = <<HEADER>>
    /\ filterEnd = 1
    /\ APPEND_BUFFER = <<>> /\ CURRENT_CARD_BUFFER = <<>>
    /\ nav = NoNav /\ tiles = NumFps /\ fpErrors = 0
    /\ LocalsInit /\ CardsInit /\ HistoryInit

progVars == <<nav, tiles, sink0, sheetVars, bufVars, localVars, cardVars, exitVars, opVars>>

\* the elements of a set of integers in increasing (document) order
RECURSIVE InOrder(_)
InOrder(S) ==
    IF S = {} THEN <<>>
    ELSE LET m == CHOOSE x \in S : \A y \in S : x <= y
         IN <<m>> \o InOrder(S \ {m})

RECURSIVE Flatten(_)
Flatten(ss) == IF ss = <<>> THEN <<>> ELSE Head(ss) \o Flatten(Tail(ss))

\* ------------------------------------------------------------ find_add_buttons
\* sels, lines 772-777
NumStrategies == 4
Els == 1..NumEls

\* what one driver.find_elements call gives: the matched elements in document
\* order, or an error
LookupOutcomes ==
    {[ok |-> TRUE, els |-> InOrder(S)] : S \in SUBSET Els} \cup {[ok |-> FALSE, els |-> <<>>]}
\* a returned list, or an error that leaves the function
Returned(els) == [raised |-> FALSE, els |-> els]
Raised == [raised |-> TRUE, els |-> <<>>]
\* what is_displayed gives for an element
ShownOutcomes == {"yes", "no", "raise"}

\* lines 778-783: the matches of the strategies that did not fail, appended
found_elements(lookups) ==
    Flatten([i \in DOMAIN lookups |-> IF lookups[i].ok THEN lookups[i].els ELSE <<>>])

\* line 785: the list comprehension calls is_displayed outside any try
find_add_buttons(lookups, shown) ==
    LET found == found_elements(lookups)
    IN IF \E i \in DOMAIN found : shown[found[i]] = "raise"
       THEN Raised
       ELSE Returned(SelectSeq(found, LAMBDA e : shown[e] = "yes"))

\* Amex-Offers.py plus_buttons_snapshot: second lookup only when the first one
\* is empty, everything inside one try
plus_buttons_snapshot(lookups, shown) ==
    IF ~lookups[1].ok THEN Returned(<<>>)
    ELSE LET first == IF lookups[1].els = <<>> THEN lookups[2] ELSE lookups[1]
             btns  == first.els
         IN IF ~first.ok THEN Returned(<<>>)
            ELSE IF \E i \in DOMAIN btns : shown[btns[i]] = "raise" THEN Returned(<<>>)
            ELSE Returned(SelectSeq(btns, LAMBDA e : shown[e] = "yes"))

InitFind ==
    /\ pc = "find_call"
    /\ call \in [fn : {"find"}, lookups : [1..NumStrategies -> LookupOutcomes],
                 shown : [Els -> ShownOutcomes], res : {Returned(<<>>)}]
    /\ Idle

find_add_buttons_call ==
    /\ pc = "find_call"
    /\ call' = [call EXCEPT !.res = find_add_buttons(call.lookups, call.shown)]
    /\ pc' = "find_done"
    /\ UNCHANGED progVars

plus_buttons_snapshot_call ==
    /\ pc = "find_call"
    /\ call' = [call EXCEPT !.res = plus_buttons_snapshot(call.lookups, call.shown)]
    /\ pc' = "find_done_amex"
    /\ UNCHANGED progVars

NextFind == find_add_buttons_call \/ plus_buttons_snapshot_call

SpecFind == InitFind /\ [][NextFind]_vars


\* ---------------------------------------------------------- extract_brand_smart
\* The texts a page can hold, by what the brand filters test in them.
BrandTexts == {"", "Acme", "$5 cash back", "10% off", "About this deal", "cash\\back"}

TextLen(t) ==
    CASE t = ""                -> 0
      [] t = "Acme"            -> 4
      [] t = "$5 cash back"    -> 12
      [] t = "10% off"         -> 7
      [] t = "About this deal" -> 15
      [] OTHER                 -> 9

\* re.search(r"cash\s*back|\$\d", t, re.I), lines 754 and 762
MatchesMoney(t) == t = "$5 cash back"
\* line 762 adds "about this deal"
MatchesBoilerplate(t) == t = "About this deal"
\* re.search(r"cash\\s*back|\\$\\d", val, re.I), line 745: in a raw string the
\* doubled backslashes ask for a literal backslash, so the pattern matches
\* "cash\" followed by "back" and nothing a page normally shows
MatchesEscapedMoney(t) == t = "cash\\back"

BRAND_FALLBACK == "Unknown Brand"
\* heads[:6], line 760
HeadLimit == 6

\* the script of lines 731-743: the nearest sibling before the "added to card"
\* marker with a non-empty text of at most 80 characters
RECURSIVE js_added_sibling(_)
js_added_sibling(sibs) ==
    IF sibs = <<>> THEN ""
    ELSE IF Head(sibs) # "" /\ TextLen(Head(sibs)) <= 80 THEN Head(sibs)
    ELSE js_added_sibling(Tail(sibs))

\* lines 749-757: the first attribute hook with a text that passes the filter
RECURSIVE brand_from_hooks(_)
brand_from_hooks(hooks) ==
    IF hooks = <<>> THEN ""
    ELSE IF Head(hooks) \notin {"raise", ""} /\ ~MatchesMoney(Head(hooks)) THEN Head(hooks)
    ELSE brand_from_hooks(Tail(hooks))

\* lines 758-765
RECURSIVE brand_from_heads(_)
brand_from_heads(heads) ==
    IF heads = <<>> THEN ""
    ELSE LET txt == Head(heads)
         IN IF /\ txt # ""
               /\ ~MatchesMoney(txt) /\ ~MatchesBoilerplate(txt)
               /\ 2 <= TextLen(txt) /\ TextLen(txt) <= 60
            THEN txt
            ELSE brand_from_heads(Tail(heads))

extract_brand_smart(in) ==
    LET val == IF in.jsRaises \/ ~in.marker THEN "" ELSE js_added_sibling(in.sibs)
        hook == brand_from_hooks(in.hooks)
        head == IF in.headsRaise THEN ""
                ELSE brand_from_heads(SubSeq(in.heads, 1, Min(HeadLimit, Len(in.heads))))
    IN IF val # "" /\ ~MatchesEscapedMoney(val) THEN val
       ELSE IF hook # "" THEN hook
       ELSE IF head # "" THEN head
       ELSE IF in.tile_guess # "" THEN in.tile_guess
       ELSE BRAND_FALLBACK

BrandInputs ==
    [jsRaises : BOOLEAN, marker : BOOLEAN, sibs : SeqsUpTo(BrandTexts, MaxTexts),
     hooks : [1..NumHooks -> BrandTexts \cup {"raise"}],
     headsRaise : BOOLEAN, heads : SeqsUpTo(BrandTexts, MaxTexts),
     tile_guess : BrandTexts]

InitBrand ==
    /\ pc = "brand_call"
    /\ call \in [fn : {"brand"}, in : BrandInputs, res : {""}]
    /\ Idle

extract_brand_smart_call ==
    /\ pc = "brand_call"
    /\ call' = [call EXCEPT !.res = extract_brand_smart(call.in)]
    /\ pc' = "brand_done"
    /\ UNCHANGED progVars

NextBrand == extract_brand_smart_call

SpecBrand == InitBrand /\ [][NextBrand]_vars


\* ------------------------------------------------------- expiration extraction
\* Calendar dates are records [y, m, d]; datetime does the arithmetic.
IsLeap(y) == (y % 4 = 0 /\ y % 100 # 0) \/ y % 400 = 0
DaysInNoLeap(y, m) ==
    IF m = 2 THEN 28 ELSE IF m \in {4, 6, 9, 11} THEN 30 ELSE 31
DaysIn(y, m) ==
    IF m = 2 THEN (IF IsLeap(y) THEN 29 ELSE 28)
    ELSE IF m \in {4, 6, 9, 11} THEN 30 ELSE 31

NextDay(dt) ==
    IF dt.d < DaysIn(dt.y, dt.m) THEN [dt EXCEPT !.d = dt.d + 1]
    ELSE IF dt.m < 12 THEN [y |-> dt.y, m |-> dt.m + 1, d |-> 1]
    ELSE [y |-> dt.y + 1, m |-> 1, d |-> 1]

\* datetime.today() + timedelta(days=n), line 624
RECURSIVE AddDays(_, _)
AddDays(dt, n) == IF n = 0 THEN dt ELSE AddDays(NextDay(dt), n - 1)

\* timedelta and date overflow beyond these (OverflowError, caught at line 625)
HugeDays == 1000000000

\* strftime("%b %d, %Y"), line 631: month abbreviation, two-digit day, year
MonthAbbr == <<"Jan", "Feb", "Mar", "Apr", "May", "Jun",
               "Jul", "Aug", "Sep", "Oct", "Nov", "Dec">>
NoDate == [b |-> "", dd |-> <<>>, Y |-> 0]
strftime_bdY(dt) == [b |-> MonthAbbr[dt.m], dd |-> <<dt.d \div 10, dt.d % 10>>, Y |-> dt.y]

\* the formats of line 616; "other" stands for a date text strptime rejects in
\* all of them (no space after the comma, a day the month does not have, ...)
SupportedFormats == {"%b %d, %Y", "%B %d, %Y", "%m/%d/%Y", "%m/%d/%y"}
ParsesAsAny(fmt) == TRUE
ParsesAs(fmt) == fmt \in SupportedFormats

\* A terms text is a sequence of phrases:
\*   noise            - nothing the expiration patterns match
\*   days n           - "n days" without "expires in"
\*   abs fmt date     - "Expires <date text>" in the shape of the pattern of
\*                      line 717, the date text written in format fmt
\*   rel n            - "expires in n days"
RunDates == {[y |-> 2024, m |-> 1, d |-> 1], [y |-> 2024, m |-> 2, d |-> 15],
             [y |-> 2023, m |-> 2, d |-> 15], [y |-> 2023, m |-> 12, d |-> 31]}
AbsDates == {[y |-> 2024, m |-> 2, d |-> 29], [y |-> 2024, m |-> 12, d |-> 5]}
DayCounts == 0..MaxDays \cup {HugeDays}
Phrases ==
    {[kind |-> "noise", fmt |-> "", date |-> NoDate, n |-> 0]}
    \cup {[kind |-> "days", fmt |-> "", date |-> NoDate, n |-> MaxDays]}
    \cup {[kind |-> "abs", fmt |-> f, date |-> strftime_bdY(dt), n |-> 0] :
             f \in SupportedFormats \cup {"other"}, dt \in AbsDates}
    \cup {[kind |-> "rel", fmt |-> "", date |-> NoDate, n |-> k] : k \in DayCounts}

\* re.search over the terms text: the first phrase of a kind, if any
FirstOf(terms, kind) ==
    LET idx == {i \in DOMAIN terms : terms[i].kind = kind}
    IN IF idx = {} THEN 0 ELSE CHOOSE i \in idx : \A j \in idx : i <= j

\* try_parse_date_any and normalize_date_out, lines 613-631, on the text one of
\* the patterns of parse_limits_local_expiration captured
normalize_date_out(ph, today) ==
    IF ph.kind = "abs"
    THEN IF ParsesAs(ph.fmt) THEN ph.date ELSE NoDate
    ELSE IF ph.kind \in {"rel", "days"}
    THEN IF ph.n >= HugeDays THEN NoDate ELSE strftime_bdY(AddDays(today, ph.n))
    ELSE NoDate

\* parse_limits_local_expiration lines 716-721: the absolute pattern first,
\* the relative one only when the absolute pattern matched nothing
parse_expiration(terms, today) ==
    IF FirstOf(terms, "abs") # 0
    THEN normalize_date_out(terms[FirstOf(terms, "abs")], today)
    ELSE IF FirstOf(terms, "rel") # 0
    THEN normalize_date_out(terms[FirstOf(terms, "rel")], today)
    ELSE NoDate

InitExpiry ==
    /\ pc = "exp_call"
    /\ call \in [fn : {"exp"}, terms : SeqsUpTo(Phrases, MaxPhrases),
                 today : RunDates, res : {NoDate}]
    /\ Idle

parse_expiration_call ==
    /\ pc = "exp_call"
    /\ call' = [call EXCEPT !.res = parse_expiration(call.terms, call.today)]
    /\ pc' = "exp_done"
    /\ UNCHANGED progVars

NextExpiry == parse_expiration_call

SpecExpiry == InitExpiry /\ [][NextExpiry]_vars


\* ---------------------------------------------------------- discount extraction
\* A text is a sequence of pieces: a piece the discount pattern of line 635
\* matches (written as the matched text) or a piece it does not match.
DiscountMatches == {"$5 cash back", "10% off"}
DiscountPieces  == DiscountMatches \cup {"5X points"}
DiscountTexts   == SeqsUpTo(DiscountPieces, MaxPhrases)

\* pat.search(t): the leftmost match of a text, <<>> when there is none
RECURSIVE pat_search(_)
pat_search(t) ==
    IF t = <<>> THEN <<>>
    ELSE IF Head(t) \in DiscountMatches THEN <<Head(t)>>
    ELSE pat_search(Tail(t))

\* parse_discount_from_sources, lines 633-642: the texts in argument order
RECURSIVE parse_discount_from_sources(_)
parse_discount_from_sources(texts) ==
    IF texts = <<>> THEN <<>>
    ELSE IF Head(texts) # <<>> /\ pat_search(Head(texts)) # <<>>
    THEN pat_search(Head(texts))
    ELSE parse_discount_from_sources(Tail(texts))

Unknown == <<"Unknown">>
Or(a, b) == IF a # <<>> THEN a ELSE b

\* the discount cell of the row: line 934 (disc_tile), lines 961-962 on the
\* detail path, line 975 on the tile-only path
row_discount(navigated_, header_disc, terms, tile_text) ==
    LET disc_tile == parse_discount_from_sources(<<tile_text>>)
    IN IF navigated_
       THEN Or(parse_discount_from_sources(<<header_disc, disc_tile, terms, tile_text>>),
               Or(header_disc, Or(disc_tile, Unknown)))
       ELSE Or(disc_tile, Unknown)

InitDiscount ==
    /\ pc = "discount_call"
    /\ call \in [fn : {"discount"}, navigated : BOOLEAN, header_disc : DiscountTexts,
                 terms : DiscountTexts, tile_text : DiscountTexts, res : {<<>>}]
    /\ Idle

row_discount_call ==
    /\ pc = "discount_call"
    /\ call' = [call EXCEPT !.res = row_discount(call.navigated, call.header_disc,
                                                 call.terms, call.tile_text)]
    /\ pc' = "discount_done"
    /\ UNCHANGED progVars

NextDiscount == row_discount_call

SpecDiscount == InitDiscount /\ [][NextDiscount]_vars


\* ------------------------------- one pass on a page that never runs out of tiles
\* enroll_all_offers_for_current_card is called for the first card; the page
\* presents a new tile at every poll for longer than the safety stop allows,
\* each with a text that tile_fingerprint can read
PassPcs == {"enroll_start", "scan", "click", "poll", "record", "back", "post_loop"}

InitCap ==
    /\ pc = "enroll_start"
    /\ sink0 = <<>>
    /\ sink = <<HEADER>>
    /\ filterEnd = 1
    /\ APPEND_BUFFER = <<>> /\ CURRENT_CARD_BUFFER = <<>>
    /\ nav = NoNav /\ call = NoCall
    /\ tiles = SafetyClickCap + 2 /\ fpErrors = MaxFpErrors
    /\ LocalsInit
    /\ existing_rows = {} /\ cardIdx = 1 /\ roundNo = 1
    /\ attempted = <<1>> /\ firstFailed = 0
    /\ HistoryInit

NextCap ==
    \/ enroll_start \/ enroll_scan \/ enroll_click \/ enroll_poll
    \/ enroll_record_detail \/ enroll_back \/ enroll_record_tile \/ enroll_finish

\* the script keeps running: a pass that can take a step takes one
SpecCap == InitCap /\ [][NextCap]_vars /\ WF_vars(NextCap)



\* --------------------------- one pass on a page whose tile texts can be unreadable
\* enroll_all_offers_for_current_card is called for the first card; up to
\* MaxFpErrors calls of tile_fingerprint return a time stamp
InitPass ==
    /\ pc = "enroll_start"
    /\ sink0 \in {s \in SeqsUpTo(AllRows, MaxBase) : InOrderOfUse(s)}
    /\ sink = <<HEADER>> \o sink0
    /\ filterEnd = Len(sink)
    /\ APPEND_BUFFER = <<>> /\ CURRENT_CARD_BUFFER = <<>>
    /\ nav = NoNav /\ call = NoCall
    /\ tiles = NumFps /\ fpErrors = 0
    /\ LocalsInit
    /\ existing_rows = SeqToSet(DataRows(sink)) /\ cardIdx = 1 /\ roundNo = 1
    /\ attempted = <<1>> /\ firstFailed = 0
    /\ HistoryInit

NextPass ==
    \/ enroll_start \/ enroll_scan \/ enroll_click \/ enroll_poll
    \/ enroll_record_detail \/ enroll_back \/ enroll_record_tile \/ enroll_finish

SpecPass == InitPass /\ [][NextPass]_vars



\* ------------------------------------------------------------------------ _ws
\* A worksheet is the sequence of its rows, a row the sequence of its cells
\* without the trailing empty ones (what row_values and get_all_values return).
\* Cell texts are numbers: 0 is the empty cell, i in 1..HeaderCols is the text
\* of headers[i], HeaderCols + 1 is any other text.
EmptyCell == 0
OtherText == HeaderCols + 1
headers == [i \in 1..HeaderCols |-> i]
CellTexts == 0..OtherText
WsRows == {r \in SeqsUpTo(CellTexts, HeaderCols + 1) :
              r = <<>> \/ r[Len(r)] # EmptyCell}
DataRow == <<OtherText>>

\* ws.row_values(1)
row_values(ws, n) == IF n \in DOMAIN ws THEN ws[n] ELSE <<>>

\* ws.append_row(values): the values land in the row after the last row of the
\* sheet that holds data
LastDataRow(ws) ==
    IF \A i \in DOMAIN ws : ws[i] = <<>> THEN 0
    ELSE CHOOSE i \in DOMAIN ws : ws[i] # <<>> /\ \A j \in DOMAIN ws : j > i => ws[j] = <<>>
append_row(ws, values) == SubSeq(ws, 1, LastDataRow(ws)) \o <<values>>

\* ws.update("1:1", [values]): the cells of row 1 under the values are
\* overwritten, the cells to their right are left as they are
update_row1(ws, values) ==
    LET old == row_values(ws, 1)
        new == [i \in 1..Max(Len(old), Len(values)) |->
                   IF i <= Len(values) THEN values[i] ELSE old[i]]
    IN IF ws = <<>> THEN <<new>> ELSE [ws EXCEPT ![1] = new]

\* _ws, lines 343-352 (amex: lines 76-83): a missing worksheet is created
\* empty; the header row is appended when row 1 is empty and written over row 1
\* when row 1 differs from the headers
ws_result(ws0) ==
    LET row1 == row_values(ws0, 1)
    IN IF row1 # headers
       THEN IF row1 = <<>>
            THEN [ws |-> append_row(ws0, headers), writes |-> <<"append_row">>]
            ELSE [ws |-> update_row1(ws0, headers), writes |-> <<"update">>]
       ELSE [ws |-> ws0, writes |-> <<>>]

\* the worksheet _ws finds: absent, or a first row of any content above up to
\* MaxBelow data rows
Worksheets ==
    {<<>>} \cup {<<r>> \o [i \in 1..k |-> DataRow] : r \in WsRows, k \in 0..MaxBelow}

InitWs ==
    /\ pc = "ws_call"
    /\ call \in [fn : {"_ws"}, present : BOOLEAN, ws0 : Worksheets, ws : {<<>>},
                 writes : {<<>>}]
    /\ call.present \/ call.ws0 = <<>>
    /\ Idle

ws_call ==
    /\ pc = "ws_call"
    /\ call' = [call EXCEPT !.ws = ws_result(call.ws0).ws,
                            !.writes = ws_result(call.ws0).writes]
    /\ pc' = "ws_done"
    /\ UNCHANGED progVars

NextWs == ws_call

SpecWs == InitWs /\ [][NextWs]_vars



\* ------------------------------------------------------- the row of one offer
\* The terms text of a detail page, by what the patterns of
\* parse_limits_local_expiration (lines 701-727) find in it: the amount the
\* first and the second maximum pattern capture, the amount the spend pattern
\* captures ("" when a pattern has no match), the location sentence, a street
\* address block, the expiration phrases, and the pieces the discount pattern
\* sees.
RowToday == [y |-> 2024, m |-> 2, d |-> 15]
RowPhrases ==
    {<<>>,
     <<[kind |-> "abs", fmt |-> "%b %d, %Y", date |-> strftime_bdY([y |-> 2024, m |-> 12, d |-> 5]), n |-> 0]>>,
     <<[kind |-> "abs", fmt |-> "other", date |-> strftime_bdY([y |-> 2024, m |-> 12, d |-> 5]), n |-> 0]>>,
     <<[kind |-> "rel", fmt |-> "", date |-> NoDate, n |-> 14]>>}
TermsTexts ==
    [max1 : {"", "$50"}, max2 : {"", "$75"}, spend : {"", "$25"},
     loc : BOOLEAN, addr : BOOLEAN, exp : RowPhrases,
     disc : {<<>>, <<"10% off">>}]
\* the text of [data-testid='limitations']: absent, without an amount, with one
HdrLimits == {"", "Limit one per card", "$10"}
HdrAmount(hdr_limit) == IF hdr_limit = "$10" THEN "$10" ELSE ""

OrText(a, b) == IF a # "" THEN a ELSE b

\* parse_limits_local_expiration, lines 701-727
parse_limits_local_expiration(terms, hdr_limit) ==
    LET maxd  == OrText(terms.max1, terms.max2)
        mind  == IF terms.spend # "" THEN terms.spend
                 ELSE IF hdr_limit # "" THEN HdrAmount(hdr_limit) ELSE ""
        exp   == parse_expiration(terms.exp, RowToday)
        local == IF terms.loc THEN "Yes" ELSE IF terms.addr THEN "Yes" ELSE "No"
    IN [maxd |-> maxd, mind |-> OrText(mind, "None"), exp |-> exp, local |-> local]

CARD_NAME_DEFAULT == "Chase Card"
HOLDER == "Andrew"
\* parse_card_and_last4_quick, lines 644-664: what the page gives, or defaults
CardTexts == {<<"Freedom Card", "1234">>, <<CARD_NAME_DEFAULT, "1234">>,
              <<CARD_NAME_DEFAULT, "XXXX">>}

\* the page of an offer as the brand lookups see it: the attribute hooks all
\* show the same text and nothing else yields a candidate
BrandPage(hook, guess) ==
    [jsRaises |-> FALSE, marker |-> FALSE, sibs |-> <<>>,
     hooks |-> [i \in 1..NumHooks |-> hook],
     headsRaise |-> FALSE, heads |-> <<>>, tile_guess |-> guess]

\* lines 955-965: the row of the detail path
detail_row(in) ==
    LET lim == parse_limits_local_expiration(in.terms, in.header_lim)
    IN <<HOLDER, in.card[2], in.card[1],
         extract_brand_smart(BrandPage(in.hook, in.tile_brand_guess)),
         row_discount(TRUE, in.header_disc, in.terms.disc, in.tile_text),
         lim.maxd, lim.mind, strftime_bdY(RowToday), lim.exp, lim.local>>

\* lines 973-979: the row of the tile-only path
tile_row(in) ==
    <<HOLDER, "XXXX", CARD_NAME_DEFAULT,
      OrText(in.tile_brand_guess,
             extract_brand_smart(BrandPage(in.hook, in.tile_brand_guess))),
      row_discount(FALSE, in.header_disc, in.terms.disc, in.tile_text),
      "", OrText("", "None"), strftime_bdY(RowToday), NoDate, "No">>

build_row(in) == IF in.navigated THEN detail_row(in) ELSE tile_row(in)

RowInputs ==
    [navigated : BOOLEAN, card : CardTexts, hook : {"", "Acme"},
     tile_brand_guess : {"", "Acme"},
     header_disc : {<<>>, <<"$5 cash back">>, <<"5X points">>},
     header_lim : HdrLimits,
     tile_text : {<<>>, <<"$5 cash back">>, <<"5X points">>},
     terms : TermsTexts]

InitRow ==
    /\ pc = "row_call"
    /\ call \in [fn : {"row"}, in : RowInputs, row : {<<>>}]
    /\ Idle

build_row_call ==
    /\ pc = "row_call"
    /\ call' = [call EXCEPT !.row = build_row(call.in)]
    /\ pc' = "row_done"
    /\ UNCHANGED progVars

NextRow == build_row_call

SpecRow == InitRow /\ [][NextRow]_vars



\* ------------------------------------------- go_to_categories_for on any page
\* process_cards is about to call go_to_categories_for for the first card
CatPages ==
    [nav : robust_get_results(HubTries), shell : {"True", "False", "raise"},
     selected : BOOLEAN,
     c1 : BOOLEAN, a1 : BOOLEAN, h1 : BOOLEAN, x1 : BOOLEAN,
     link : BOOLEAN, c2 : BOOLEAN, a2 : BOOLEAN, h2 : BOOLEAN]

InitCat ==
    /\ pc = "cat_call"
    /\ call \in [fn : {"cat_page"}, in : CatPages, res : {"none"}, waits : {0}]
    /\ Idle

go_to_categories_call ==
    /\ pc = "cat_call"
    /\ call' = [fn |-> "go_to_categories_for", in |-> call.in,
                res |-> go_to_categories_on(call.in),
                waits |-> readiness_waits(call.in)]
    /\ pc' = "nav"
    /\ UNCHANGED progVars

NextCat == go_to_categories_call \/ go_to_categories_for

SpecCat == InitCat /\ [][NextCat]_vars



\* ------------------------------------------------- maybe_fill_password_on_2fa
\* wait_for_post_login polls (lines 550-559): each poll calls
\* maybe_fill_password_on_2fa and sleeps.  Time is counted in seconds; the
\* password has PwLen characters and the password field is known by the number
\* of characters it holds.
RetryGap == 6
TypeSeconds == 2
Never == 0 - 1

\* module import (lines 322-323) at a clock far from the epoch
InitTwoFa ==
    /\ pc = "wait_2fa"
    /\ call = [fn |-> "2fa", now |-> RetryGap, done |-> FALSE, last |-> 0,
               field |-> 0, on2fa |-> FALSE, typedAt |-> Never, event |-> "none"]
    /\ Idle

\* lines 494-546 once the URL and flag tests let the call through
twofa_attempt(c, lookupOk, sent, raises, stuck) ==
    LET c1 == [c EXCEPT !.last = c.now]
    IN IF ~lookupOk
       THEN [c1 EXCEPT !.event = "lookup_failed"]
       ELSE IF c.field > 0
       THEN [c1 EXCEPT !.done = TRUE, !.event = "prefilled"]
       ELSE IF raises
       THEN [c1 EXCEPT !.typedAt = c.now, !.field = sent,
                       !.now = Min(c.now + TypeSeconds, MaxClock),
                       !.event = "typing_raised"]
       ELSE [c1 EXCEPT !.typedAt = c.now, !.field = stuck,
                       !.done = (stuck > 0),
                       !.now = Min(c.now + TypeSeconds, MaxClock),
                       !.event = "typed"]

\* maybe_fill_password_on_2fa, lines 480-548: the URL the call reads, whether
\* the field is found, how many characters send_keys delivered before an error,
\* and how many characters the field holds after all were sent
maybe_fill_password_on_2fa(c, on2fa, lookupOk, sent, raises, stuck) ==
    LET c0 == [c EXCEPT !.on2fa = on2fa]
    IN IF ~on2fa THEN [c0 EXCEPT !.event = "off_page"]
       ELSE IF c.done THEN [c0 EXCEPT !.event = "done"]
       ELSE IF c.now - c.last < RetryGap THEN [c0 EXCEPT !.event = "too_soon"]
       ELSE twofa_attempt(c0, lookupOk, sent, raises, stuck)

twofa_call ==
    /\ pc = "wait_2fa"
    /\ \E on2fa \in BOOLEAN, lookupOk \in BOOLEAN, sent \in 0..(PwLen - 1),
          raises \in BOOLEAN, stuck \in 0..PwLen :
          call' = maybe_fill_password_on_2fa(call, on2fa, lookupOk, sent, raises, stuck)
    /\ UNCHANGED <<pc, progVars>>

\* line 557 and the page between two polls: time passes, the page may render
\* the field anew
twofa_sleep ==
    /\ pc = "wait_2fa"
    /\ \E d \in 1..RetryGap, cleared \in BOOLEAN :
          /\ call.now + d <= MaxClock
          /\ call' = [call EXCEPT !.now = call.now + d,
                                  !.field = IF cleared THEN 0 ELSE call.field]
    /\ UNCHANGED <<pc, progVars>>

NextTwoFa == twofa_call \/ twofa_sleep

SpecTwoFa == InitTwoFa /\ [][NextTwoFa]_vars


\* ---------------------------------------------------------------------------
\* The Amex script (src/amex/Amex-Offers.py): main, the add loop and the
\* buffered writer.  Rows are counted, not told apart: the script never
\* compares them before dedupe_rows.
\* ---------------------------------------------------------------------------

\* line 55
MICRO_BATCH == 3
\* line 453
AmexSafetyCap == 800

\* line 449: the buffer is flushed once it holds MICRO_BATCH rows
BufferFullLate(n) == n > MICRO_BATCH
BufferFull(n) == n >= MICRO_BATCH

\* lines 103-107 with append_rows_now (lines 95-101): the rows are sent, an
\* error of the sink is logged and swallowed, the buffer is emptied either way
amex_flush_buffer(c, appendOk) ==
    IF c.buf = 0 THEN c
    ELSE [c EXCEPT !.buf = 0,
                   !.sheet = IF appendOk THEN c.sheet + c.buf ELSE c.sheet,
                   !.lost  = IF appendOk THEN c.lost ELSE c.lost + c.buf]

\* lines 400-402 and the ghost counters of one pass
amex_pass_locals(c) ==
    [c EXCEPT !.safety_clicks = 0, !.idle_rounds = 0, !.added_count = 0,
              !.clicked = 0, !.passes = c.passes + 1, !.flushed = FALSE,
              !.event = "pass"]

\* lines 420-456: one iteration that found a button.  The click may raise
\* (caught, line 427), marking the button processed may fail (caught, line 432);
\* the row is buffered and counted in both cases.
amex_add_one(c, clickOk, markOk, appendOk) ==
    LET c1 == [c EXCEPT !.idle_rounds = 0,
                        !.clicked = IF clickOk THEN c.clicked + 1 ELSE c.clicked,
                        !.page = IF markOk THEN c.page - 1 ELSE c.page,
                        !.markFails = IF markOk THEN c.markFails ELSE c.markFails + 1,
                        !.buf = c.buf + 1,
                        !.added_count = c.added_count + 1,
                        !.safety_clicks = c.safety_clicks + 1,
                        !.event = IF clickOk THEN "clicked" ELSE "click_raised"]
    IN IF BufferFull(c1.buf) THEN amex_flush_buffer(c1, appendOk) ELSE c1

\* module import (line 61) and main up to the first pass (lines 478-490): the
\* page shows some add buttons, the environment fixed AMEX_REFRESH_ROUNDS
InitAmex ==
    /\ pc = "amex_pass"
    /\ \E m \in 0..MaxRefresh, p \in 0..MaxButtons :
          call = [fn |-> "amex", max |-> m, page |-> p, buf |-> 0, sheet |-> 0,
                  lost |-> 0, rounds |-> 0, total_added |-> 0, ret |-> 0,
                  added_count |-> 0, clicked |-> 0, lastClicked |-> 0,
                  idle_rounds |-> 0, safety_clicks |-> 0, markFails |-> 0,
                  passes |-> 0, refreshes |-> 0, flushed |-> TRUE,
                  event |-> "start"]
    /\ Idle

\* lines 392-402: add_all_offers_for_current_card is entered
amex_pass_start ==
    /\ pc = "amex_pass"
    /\ call' = amex_pass_locals(call)
    /\ pc' = "amex_loop"
    /\ UNCHANGED progVars

\* lines 404-413: the snapshot is empty (no button left, none displayed, or the
\* lookup raised, line 357)
amex_idle ==
    /\ pc = "amex_loop"
    /\ IF call.idle_rounds + 1 >= 2
       THEN /\ call' = [call EXCEPT !.idle_rounds = call.idle_rounds + 1,
                                    !.ret = call.added_count,
                                    !.lastClicked = call.clicked,
                                    !.event = "return"]
            /\ pc' = "amex_flush"
       ELSE /\ call' = [call EXCEPT !.idle_rounds = call.idle_rounds + 1,
                                    !.event = "idle"]
            /\ pc' = pc
    /\ UNCHANGED progVars

\* lines 415-458: the snapshot holds a button
amex_iteration ==
    /\ pc = "amex_loop"
    /\ call.page > 0
    /\ \E clickOk \in BOOLEAN, markOk \in BOOLEAN, appendOk \in BOOLEAN :
          /\ markOk \/ call.markFails < MaxMarkFails
          /\ LET c1 == amex_add_one(call, clickOk, markOk, appendOk)
             IN IF c1.safety_clicks > AmexSafetyCap
                THEN /\ call' = [c1 EXCEPT !.ret = c1.added_count,
                                           !.lastClicked = c1.clicked]
                     /\ pc' = "amex_flush"
                ELSE /\ call' = c1
                     /\ pc' = pc
    /\ UNCHANGED progVars

\* lines 490-491 and 509-511: main stores the count and flushes
amex_main_flush ==
    /\ pc = "amex_flush"
    /\ \E appendOk \in BOOLEAN :
          call' = [amex_flush_buffer(call, appendOk) EXCEPT
                      !.total_added = call.ret, !.flushed = TRUE,
                      !.event = "flushed"]
    /\ pc' = "amex_rounds"
    /\ UNCHANGED progVars

\* lines 494-508: the refresh cycle; driver.refresh may raise, which ends main
\* in its handler (lines 517-522)
amex_refresh ==
    /\ pc = "amex_rounds"
    /\ IF call.rounds < call.max /\ call.total_added # 0
       THEN \E refreshOk \in BOOLEAN, p \in 0..MaxButtons :
               IF refreshOk
               THEN /\ call' = [call EXCEPT !.rounds = call.rounds + 1,
                                            !.refreshes = call.refreshes + 1,
                                            !.page = p, !.event = "refresh"]
                    /\ pc' = "amex_pass"
               ELSE /\ call' = [call EXCEPT !.rounds = call.rounds + 1,
                                            !.event = "refresh_raised"]
                    /\ pc' = "amex_failed"
       ELSE /\ call' = [call EXCEPT
                           !.rounds = IF call.rounds < call.max
                                      THEN call.rounds + 1 ELSE call.rounds,
                           !.event = "rounds_over"]
            /\ pc' = "amex_done"
    /\ UNCHANGED progVars

NextAmex ==
    \/ amex_pass_start
    \/ amex_idle
    \/ amex_iteration
    \/ amex_main_flush
    \/ amex_refresh

SpecAmex == InitAmex /\ [][NextAmex]_vars


\* ---------------------------------------------------------------------------
\* The first Chase script (src/unnamed/part_000, lines 1-226): process.
\* An icon is named by the key holder|last4|brand|discount its aria-label
\* yields; a row is named by the key of its offer.
\* ---------------------------------------------------------------------------

IconKeys == 1..NumIcons

\* the orders in which a grid can show distinct icons
IconPages == {p \in SeqsUpTo(IconKeys, NumIcons) :
                 \A i, j \in 1..Len(p) : i # j => p[i] # p[j]}

\* lines 148-151: the keys of the dedup file
load_keys(file) == file

\* lines 154-156
save_key(file, k) == file \cup {k}

\* lines 186-187 and 194-195: the list is fetched anew by the loop condition
\* at every iteration; popping the local list does not change what the page
\* shows
IconsAfterSkip(page) == page

\* process is called (line 184): the dedup file of earlier runs, the grid of
\* the page
InitProcess ==
    /\ pc = "process_loop"
    /\ \E f \in SUBSET IconKeys, p \in IconPages :
          call = [fn |-> "process", page |-> p, file |-> f, done |-> load_keys(f),
                  new_rows |-> <<>>, sheet |-> <<>>, saved |-> {},
                  skips |-> 0, clicks |-> 0, event |-> "start"]
    /\ Idle

\* lines 185-195: the first icon's key is in the loaded key set
\* (the loop has no bound of its own: the skips are counted modulo MaxSkips + 1)
process_skip ==
    /\ pc = "process_loop"
    /\ call.page # <<>>
    /\ Head(call.page) \in call.done
    /\ call' = [call EXCEPT !.page = IconsAfterSkip(call.page),
                            !.skips = (call.skips + 1) % (MaxSkips + 1),
                            !.event = "skip"]
    /\ pc' = pc
    /\ UNCHANGED progVars

\* lines 185-208 for an icon whose key is new.  The click or the first wait
\* may raise (lines 196-197); the offer joins new_rows, its key the dedup file
\* (lines 205-206); the wait after drv.back raises when no icon shows within
\* the timeout (line 207).  enrolled: the page dropped the icon; stale: the
\* grid still shows it while the last wait polls.
process_offer ==
    /\ pc = "process_loop"
    /\ call.page # <<>>
    /\ Head(call.page) \notin call.done
    /\ \E clickOk \in BOOLEAN, modalOk \in BOOLEAN, enrolled \in BOOLEAN,
          stale \in BOOLEAN, backOk \in BOOLEAN :
          LET key  == Head(call.page)
              left == IF enrolled THEN Tail(call.page) ELSE call.page
              c1   == [call EXCEPT !.clicks = call.clicks + 1]
              c2   == [c1 EXCEPT !.page = left,
                                 !.new_rows = Append(call.new_rows, key),
                                 !.file = save_key(call.file, key),
                                 !.saved = call.saved \cup {key},
                                 !.done = call.done \cup {key}]
              shown == left # <<>> \/ stale
          IN IF ~clickOk
             THEN /\ call' = [call EXCEPT !.event = "click_raised"]
                  /\ pc' = "process_failed"
             ELSE IF ~modalOk
             THEN /\ call' = [c1 EXCEPT !.page = left, !.event = "wait_raised"]
                  /\ pc' = "process_failed"
             ELSE IF ~(backOk /\ shown)
             THEN /\ call' = [c2 EXCEPT !.event = "back_wait_raised"]
                  /\ pc' = "process_failed"
             ELSE /\ call' = [c2 EXCEPT !.event = "recorded"]
                  /\ pc' = pc
    /\ UNCHANGED progVars

\* lines 185 and 208-211: no icon is left; the rows are appended in one call,
\* which may raise
process_finish ==
    /\ pc = "process_loop"
    /\ call.page = <<>>
    /\ \E appendOk \in BOOLEAN :
          IF call.new_rows = <<>>
          THEN /\ call' = [call EXCEPT !.event = "nothing_new"]
               /\ pc' = "process_done"
          ELSE IF appendOk
          THEN /\ call' = [call EXCEPT !.sheet = call.sheet \o call.new_rows,
                                       !.event = "appended"]
               /\ pc' = "process_done"
          ELSE /\ call' = [call EXCEPT !.event = "append_raised"]
               /\ pc' = "process_failed"
    /\ UNCHANGED progVars

NextProcess == process_skip \/ process_offer \/ process_finish

\* the interpreter always takes the next step of process
SpecProcess == InitProcess /\ [][NextProcess]_vars /\ WF_vars(NextProcess)


\* ---------------------------------------------------------------------------
\* normalize_sheet_dates cell by cell (lines 1120-1132) with try_parse_date_any
\* and normalize_date_out (lines 613-631) on the texts of sheet cells.
\* A cell text is a record: an empty cell, a word that is no date, "<n> days",
\* or a date written in some format, with or without a leading zero on the day
\* and with or without blanks around it.
\* ---------------------------------------------------------------------------

NoDay == [y |-> 0, m |-> 0, d |-> 0]
Blank == [kind |-> "empty", fmt |-> "", padded |-> TRUE, sp |-> FALSE, dt |-> NoDay, n |-> 0]
Word  == [kind |-> "word", fmt |-> "", padded |-> TRUE, sp |-> FALSE, dt |-> NoDay, n |-> 0]
DaysText(k) == [kind |-> "days", fmt |-> "", padded |-> TRUE, sp |-> FALSE, dt |-> NoDay, n |-> k]
\* a day of two digits has no leading zero to drop
DateText(f, padded, sp, dt) ==
    [kind |-> "abs", fmt |-> f, padded |-> (padded \/ dt.d >= 10), sp |-> sp, dt |-> dt, n |-> 0]

\* str.strip(), lines 615 and 1126
strip(cell) == [cell EXCEPT !.sp = FALSE]

\* lines 613-628: strptime reads a day with or without its leading zero; the
\* "<n> days" pattern is tried when no format fits
try_parse_date_any(s, today) ==
    IF s.kind = "empty" THEN NoDay
    ELSE IF s.kind = "abs" /\ ParsesAs(s.fmt) THEN s.dt
    ELSE IF s.kind = "days" /\ s.n < HugeDays THEN AddDays(today, s.n)
    ELSE NoDay

\* d.strftime("%b %d, %Y"), line 631
strftime_text(d) == DateText("%b %d, %Y", TRUE, FALSE, d)

\* lines 629-631
normalize_date_text(s, today) ==
    LET d == try_parse_date_any(s, today)
    IN IF d = NoDay THEN Blank ELSE strftime_text(d)

\* line 1124: the 0-based indexes of Date Added and Expiration
DateColumns == <<7, 8>>
SheetCols == 10

\* line 1128
CellChangesAlways(norm, raw) == norm # Blank
CellChanges(norm, raw) == norm # Blank /\ norm # raw

\* lines 1126-1129 for the cell of 0-based row i and column col_idx:
\* <<>> or the one update it queues
cell_update(rows, i, col_idx, today) ==
    LET row  == rows[i + 1]
        raw  == IF col_idx < Len(row) THEN strip(row[col_idx + 1]) ELSE Blank
        norm == IF raw # Blank THEN normalize_date_text(raw, today) ELSE Blank
    IN IF CellChanges(norm, raw) THEN << <<i + 1, col_idx + 1, norm>> >> ELSE <<>>

\* lines 1122-1129: rows 1..len(rows)-1, the two date columns of each
RECURSIVE sheet_updates(_, _, _)
sheet_updates(rows, i, today) ==
    IF i >= Len(rows) THEN <<>>
    ELSE cell_update(rows, i, DateColumns[1], today)
         \o cell_update(rows, i, DateColumns[2], today)
         \o sheet_updates(rows, i + 1, today)

\* OFFER_WS.update_cell(r, c, v), line 1131
update_cell(rows, u) == [rows EXCEPT ![u[1]][u[2]] = u[3]]

\* lines 1130-1131: the first k queued updates, in order
RECURSIVE apply_updates(_, _, _)
apply_updates(rows, updates, k) ==
    IF k = 0 THEN rows
    ELSE update_cell(apply_updates(rows, updates, k - 1), updates[k])

\* the texts a cell of the sheet may hold
SheetDay == [y |-> 2024, m |-> 12, d |-> 5]
DateCellTexts ==
    {Blank, Word, DaysText(MaxDays), DaysText(HugeDays),
     DateText("%b %d, %Y", FALSE, FALSE, SheetDay),
     DateText("%b %d, %Y", TRUE, TRUE, SheetDay)}
    \cup {DateText(f, TRUE, FALSE, SheetDay) : f \in SupportedFormats \cup {"other"}}
OtherCellTexts == {Word, DateText("%m/%d/%Y", TRUE, FALSE, SheetDay)}

\* a row of the sheet: the cells before the date columns, the two date
\* columns, the cell after them
SheetRow(other, added, exp) ==
    [c \in 1..SheetCols |-> IF c = DateColumns[1] + 1 THEN added
                            ELSE IF c = DateColumns[2] + 1 THEN exp
                            ELSE other]
SheetRows == {SheetRow(o, a, e) : o \in OtherCellTexts, a \in DateCellTexts, e \in DateCellTexts}
HeaderRows == {SheetRow(Word, Word, Word),
               SheetRow(Word, DaysText(MaxDays), DateText("%m/%d/%Y", TRUE, FALSE, SheetDay))}

\* the days on which the maintenance runs: mid-month and the last day of a year
DatesToday == {t \in RunDates : t.y = 2023}

\* main reaches line 1209 with some sheet; the header row first
InitDates ==
    /\ pc = "dates_run"
    /\ \E h \in HeaderRows, rs \in SeqsUpTo(SheetRows, MaxDateRows), t \in DatesToday :
          call = [fn |-> "dates", rows |-> <<h>> \o rs, before |-> <<h>> \o rs,
                  today |-> t, runs |-> 0, writes |-> <<>>, first |-> <<>>]
    /\ Idle

\* normalize_sheet_dates, lines 1120-1132; an update_cell that raises ends it
normalize_sheet_dates_call ==
    /\ pc = "dates_run"
    /\ call.runs < 2
    /\ LET updates == sheet_updates(call.rows, 1, call.today)
       IN \E k \in 0..Len(updates) :
             /\ call' = [call EXCEPT !.rows = apply_updates(call.rows, updates, k),
                                     !.runs = call.runs + 1,
                                     !.first = IF call.runs = 0 THEN updates ELSE call.first,
                                     !.writes = SubSeq(updates, 1, k)]
             /\ pc' = IF k < Len(updates) THEN "dates_failed"
                      ELSE IF call.runs = 1 THEN "dates_done" ELSE pc
    /\ UNCHANGED progVars

NextDates == normalize_sheet_dates_call

SpecDates == InitDates /\ [][NextDates]_vars


\* ======================================================================= claims
CeilDiv(n, c) == CHOOSE m \in 0..n : m * c >= n /\ (m = 0 \/ (m - 1) * c < n)
Distinct(s) == Cardinality(SeqToSet(s))
IsLastOccurrence(s, i) == \A j \in DOMAIN s : j > i => s[j] # s[i]

\* the rows of s at its last occurrences, in order
RECURSIVE LastOccurrences(_, _)
LastOccurrences(s, i) ==
    IF i > Len(s) THEN <<>>
    ELSE (IF IsLastOccurrence(s, i) THEN <<s[i]>> ELSE <<>>) \o LastOccurrences(s, i + 1)

\* main has not started sheet maintenance (normalize, dedupe, reset filter)
NoMaintenanceYet ==
    \/ pc \in TryPcs \ {"dedupe", "reset_filter"}
    \/ pc \notin TryPcs /\ fatalFrom # "maintenance"

\* C1: after a flush_buffer in which the append of chunk k failed, the pending
\* buffer holds exactly the rows of chunk k and of all later chunks (the rows
\* not yet in the sink), so that no row is discarded.
C1_FailedFlushKeepsRows ==
    (pc = "cleanup" /\ lastFlush.done /\ lastFlush.failAt > 0) =>
        APPEND_BUFFER = SubSeq(lastFlush.pre,
                               (lastFlush.failAt - 1) * APPEND_CHUNK_SIZE + 1,
                               Len(lastFlush.pre))

\* C2: a flush_buffer of n pending rows in which no append fails issues exactly
\* ceil(n / APPEND_CHUNK_SIZE) append calls, each of APPEND_CHUNK_SIZE rows
\* except possibly the last, in buffer order, their concatenation equal to the
\* buffer; the sink receives exactly these rows and afterwards both buffers
\* are empty.
C2_FlushChunks ==
    (pc = "cleanup" /\ lastFlush.done /\ lastFlush.failAt = 0) =>
        LET n     == Len(lastFlush.pre)
            calls == lastFlush.calls
        IN /\ Len(calls) = CeilDiv(n, APPEND_CHUNK_SIZE)
           /\ \A k \in DOMAIN calls :
                 /\ calls[k].ok
                 /\ Len(calls[k].rows) =
                       IF k < Len(calls) THEN APPEND_CHUNK_SIZE
                       ELSE n - APPEND_CHUNK_SIZE * (Len(calls) - 1)
                 /\ Len(calls[k].rows) >= 1
           /\ SentRows(calls) = lastFlush.pre
           /\ Len(sink) >= n
           /\ SubSeq(sink, Len(sink) - n + 1, Len(sink)) = lastFlush.pre
           /\ APPEND_BUFFER = <<>>
           /\ CURRENT_CARD_BUFFER = <<>>

\* 2c+1 rows flushed without failure: three calls of sizes c, c, 1
C2_Witness ==
    /\ pc = "cleanup" /\ lastFlush.done /\ lastFlush.failAt = 0
    /\ Len(lastFlush.pre) = 2 * APPEND_CHUNK_SIZE + 1
    /\ Len(lastFlush.calls) = 3
    /\ Len(lastFlush.calls[3].rows) = 1
    /\ APPEND_BUFFER = <<>>

\* C3: while process_cards runs, every row whose key is in its ledger (the rows
\* loaded from the sink and the rows the Enrollment Loop has recorded since) is
\* in the sink or in one of the pending buffers (CURRENT_CARD_BUFFER,
\* APPEND_BUFFER), also after a later step of the card raised an error that
\* process_cards caught.
C3_RecordedRowsKept ==
    (pc \in CardPcs) =>
        \A r \in existing_rows :
            \/ r \in SeqToSet(sink)
            \/ r \in SeqToSet(CURRENT_CARD_BUFFER)
            \/ r \in SeqToSet(APPEND_BUFFER)

\* C4: before sheet maintenance touches the sink, no key gets a second row
\* appended: a key present at run start keeps its number of rows, any other key
\* has at most one row in the sink.
C4_NoSecondAppend ==
    NoMaintenanceYet =>
        \A k \in AllRows :
            IF k \in SeqToSet(sink0)
            THEN Count(DataRows(sink), k) = Count(sink0, k)
            ELSE Count(DataRows(sink), k) <= 1

\* C5: the Enrollment Loop leaves its loop (below the click cap) only when the
\* last IdleLimit polls were all empty, and never stays in the loop after
\* IdleLimit consecutive empty polls; when it leaves, the rows it queues (to the
\* sink, or to APPEND_BUFFER when the append fails) are exactly the rows
\* recorded in the pass.
C5_LoopRunsUntilIdle ==
    /\ (pc = "post_loop" /\ safety_clicks <= SafetyClickCap) =>
          /\ emptyPolls = IdleLimit
          /\ idle_cycles = IdleLimit
          /\ per_card_rows = CURRENT_CARD_BUFFER
          /\ added_total = Len(per_card_rows)
          /\ SeqToSet(per_card_rows) \subseteq existing_rows
    /\ (pc \in {"scan", "click", "poll", "record", "back"}) => emptyPolls < IdleLimit

C5_QueuesRecordedRows ==
    (pc = "post_loop" /\ pc' \in {"nav", "load", "normalize"}) =>
        \/ /\ sink' = sink \o per_card_rows
           /\ APPEND_BUFFER' \in {APPEND_BUFFER, APPEND_BUFFER \o per_card_rows}
        \/ /\ sink' = sink
           /\ APPEND_BUFFER' = APPEND_BUFFER \o per_card_rows

C5_IdleTermination == [](C5_LoopRunsUntilIdle) /\ [][C5_QueuesRecordedRows]_vars

C5_Witness ==
    /\ pc = "post_loop" /\ idle_cycles = IdleLimit /\ emptyPolls = IdleLimit
    /\ safety_clicks = 2 /\ Len(per_card_rows) = 1

\* C6: whenever main has gone past its finally clause (about to quit the
\* browser, blocked, or exited), whichever way it left the try body,
\* flush_buffer has been invoked.
C6_FlushBeforeExit ==
    (pc \in {"cleanup", "blocked", "exited"}) =>
        /\ lastFlush.done
        /\ exitPath \in {"normal", "nologin", "interrupt", "fatal"}

C6_Witness ==
    /\ pc = "exited" /\ exitPath = "interrupt" /\ fatalFrom = "cards"
    /\ lastFlush.done /\ lastFlush.pre # <<>>

\* C7: dedupe_rows leaves exactly the last occurrence of every distinct data
\* row, in order; returns the number of data rows minus the number of distinct
\* values; keeps the header row; and issues its deletions in strictly
\* descending index order, each index still naming the duplicate it was issued
\* for when it is applied.
C7_DedupeKeepsLast ==
    (pc = "reset_filter" /\ lastDedupe.done) =>
        LET pre  == lastDedupe.pre
            req  == lastDedupe.req
            data == DataRows(pre)
        IN /\ sink[1] = HEADER
           /\ DataRows(sink) = LastOccurrences(data, 1)
           /\ \A v \in SeqToSet(data) : Count(DataRows(sink), v) = 1
           /\ lastDedupe.ret = Len(data) - Distinct(data)
           /\ Len(sink) = Len(pre) - lastDedupe.ret
           /\ \A k \in DOMAIN req :
                 /\ req[k] >= 1
                 /\ \A j \in DOMAIN req : j < k => req[j] > req[k]
                 /\ LET before == ApplyDeletes(pre, SubSeq(req, 1, k - 1))
                    IN /\ req[k] + 1 \in DOMAIN before
                       /\ before[req[k] + 1] = pre[req[k] + 1]
                       /\ ~IsLastOccurrence(pre, req[k] + 1)

\* the fixture [A, B, A, C, B]: two rows removed, survivors A, C, B
C7_Witness ==
    /\ pc = "reset_filter" /\ lastDedupe.done
    /\ lastDedupe.pre = <<HEADER, 1, 2, 1, 0 - 1, 2>>
    /\ lastDedupe.ret = 2
    /\ sink = <<HEADER, 1, 0 - 1, 2>>

\* C8: in process_cards every card is attempted in list order whatever happened
\* to the cards before it, a call of process_cards ends with all cards
\* attempted, and no failure inside a card's processing ends main's try body.
C8_CardFailureSkips ==
    /\ (pc = "nav") => attempted = [i \in 1..(cardIdx - 1) |-> i]
    /\ (pc \in CardPcs \ {"nav"}) => attempted = [i \in 1..cardIdx |-> i]
    /\ (pc = "normalize" \/ (pc = "load" /\ roundNo > 1)) =>
          attempted = [i \in Cards |-> i]
    /\ (exitPath = "fatal") => fatalFrom # "cards"

\* the first card failed and the last card is being processed
C8_Witness ==
    /\ pc = "scan"
    /\ firstFailed = 1
    /\ cardIdx = NumCards
    /\ attempted = [i \in Cards |-> i]

\* C9: the confirmation poll never runs past its window and ends either with
\* the detail state detected or, on timeout, not detected; after a timeout the
\* next step of the pass records a row built from the tile unless its key is in
\* the ledger, marks the picked tile processed and returns to the scan.
C9_PollEnds ==
    /\ pollTicks <= MaxPollTicks
    /\ (pc = "record") =>
          /\ navigated <=> lastConfirm = "detail"
          /\ ~navigated <=> (lastConfirm = "timeout" /\ pollTicks = MaxPollTicks)

C9_TimeoutStep ==
    (pc = "record" /\ ~navigated /\ pc' # "finally") =>
        /\ pc' = "scan"
        /\ picked_fp \in processed_fps'
        /\ firstFailed' = firstFailed
        /\ \E row \in CanonRows :
              IF row \in existing_rows
              THEN /\ per_card_rows' = per_card_rows
                   /\ CURRENT_CARD_BUFFER' = CURRENT_CARD_BUFFER
              ELSE /\ per_card_rows' = Append(per_card_rows, row)
                   /\ CURRENT_CARD_BUFFER' = Append(CURRENT_CARD_BUFFER, row)
                   /\ row \in existing_rows'

C9_TimeoutIsSuccess == [](C9_PollEnds) /\ [][C9_TimeoutStep]_vars

C9_Witness ==
    /\ pc = "scan" /\ lastConfirm = "timeout" /\ ~navigated
    /\ picked_fp \in processed_fps
    /\ safety_clicks = 1 /\ Len(per_card_rows) = 1

\* C10: robust_get never raises: it returns True or False whatever kind of
\* failure the browser reports.
C10_RobustGetNeverRaises ==
    nav.res # "raise"

\* the elements some lookup strategy matched
Matched(lookups) ==
    UNION {SeqToSet(lookups[i].els) : i \in DOMAIN lookups}

\* C11: find_add_buttons never raises: when no DOM call fails it returns the
\* visible elements of the union of its strategies' matches, and when a lookup
\* or a visibility check fails it still returns a collection (the empty one when
\* nothing visible was matched).
C11_FindNeverRaises ==
    (pc = "find_done") =>
        /\ ~call.res.raised
        /\ SeqToSet(call.res.els) \subseteq
              {e \in Matched(call.lookups) : call.shown[e] = "yes"}
        /\ (\A e \in Matched(call.lookups) : call.shown[e] # "raise") =>
              SeqToSet(call.res.els) = {e \in Matched(call.lookups) : call.shown[e] = "yes"}

\* a text holding a currency amount or a percentage
HasAmount(t) == t \in {"$5 cash back", "10% off"}

\* no source of brand extraction yields a candidate
NoBrandSource(in) ==
    /\ in.jsRaises \/ ~in.marker \/ \A i \in DOMAIN in.sibs : in.sibs[i] = ""
    /\ \A i \in DOMAIN in.hooks : in.hooks[i] \in {"raise", ""}
    /\ in.headsRaise \/ \A i \in DOMAIN in.heads : in.heads[i] = ""
    /\ in.tile_guess = ""

\* C12: whatever the page shows near the added marker, in the attribute hooks,
\* in the headings and in the tile guess, extract_brand_smart never returns a
\* text holding a currency amount or a percentage, and it returns exactly
\* "Unknown Brand" when no source yields a candidate.
C12_BrandNeverAmount ==
    (pc = "brand_done") =>
        /\ ~HasAmount(call.res)
        /\ NoBrandSource(call.in) => call.res = BRAND_FALLBACK

\* a phrase the claim counts as a parseable expiration: an absolute date in a
\* supported format, or "expires in n days"
Parseable(ph) ==
    \/ ph.kind = "abs" /\ ph.fmt \in SupportedFormats
    \/ ph.kind = "rel" /\ ph.n < HugeDays

\* C13: a terms text without a parseable expiration phrase gives the empty
\* expiration, whatever else it holds (a date-shaped text no format accepts, a
\* bare "n days", an absurd number of days).
C13_NoExpirationIsEmpty ==
    (pc = "exp_done" /\ \A i \in DOMAIN call.terms : ~Parseable(call.terms[i])) =>
        call.res = NoDate

\* "Expires <text no format accepts>" followed by a bare "n days"
C13_Witness ==
    /\ pc = "exp_done"
    /\ Len(call.terms) = 2
    /\ call.terms[1].kind = "abs" /\ call.terms[1].fmt = "other"
    /\ call.terms[2].kind = "days"
    /\ call.res = NoDate

\* days from 2023-01-01 to a date of 2023..2025
DaysBeforeMonth(y, m) ==
    LET cum == <<0, 31, 59, 90, 120, 151, 181, 212, 243, 273, 304, 334>>
    IN cum[m] + (IF m > 2 /\ IsLeap(y) THEN 1 ELSE 0)
Ordinal(y, m, d) ==
    (y - 2023) * 365 + (IF y > 2024 THEN 1 ELSE 0) + DaysBeforeMonth(y, m) + d
MonthNo(b) == CHOOSE m \in 1..12 : MonthAbbr[m] = b

\* C14: when the only expiration phrase of the terms is "expires in n days",
\* the expiration is the date n days after the run date, written as month
\* abbreviation, two-digit day and year, across month ends, the leap day and
\* the year end.
C14_RelativeExpiration ==
    (/\ pc = "exp_done"
     /\ FirstOf(call.terms, "abs") = 0
     /\ FirstOf(call.terms, "rel") # 0
     /\ call.terms[FirstOf(call.terms, "rel")].n < HugeDays) =>
        LET n == call.terms[FirstOf(call.terms, "rel")].n
            r == call.res
        IN /\ r.b \in SeqToSet(MonthAbbr)
           /\ Len(r.dd) = 2
           /\ LET day == 10 * r.dd[1] + r.dd[2]
                  mon == MonthNo(r.b)
              IN /\ day \in 1..DaysIn(r.Y, mon)
                 /\ Ordinal(r.Y, mon, day) =
                       Ordinal(call.today.y, call.today.m, call.today.d) + n

\* "expires in 30 days" on 2024-01-01 gives "Jan 31, 2024"
C14_Witness ==
    /\ pc = "exp_done"
    /\ call.today = [y |-> 2024, m |-> 1, d |-> 1]
    /\ Len(call.terms) = 1 /\ call.terms[1].kind = "rel" /\ call.terms[1].n = 30
    /\ call.res = [b |-> "Jan", dd |-> <<3, 1>>, Y |-> 2024]

HasMatch(t) == \E i \in DOMAIN t : t[i] \in DiscountMatches
FirstMatch(t) == <<t[CHOOSE i \in DOMAIN t : t[i] \in DiscountMatches /\
                                        \A j \in 1..(i - 1) : t[j] \notin DiscountMatches]>>

\* the text sources of the row in priority order: header, tile, terms on the
\* detail path; the tile alone on the tile-only path
DiscountSources ==
    IF call.navigated THEN <<call.header_disc, call.tile_text, call.terms>>
    ELSE <<call.tile_text>>

\* C15: the discount cell is the first pattern match of the first source, in
\* priority order, that holds one, and it is exactly "Unknown" when no source
\* holds a match.
C15_DiscountFirstMatch ==
    (pc = "discount_done") =>
        LET src  == DiscountSources
            with == {i \in DOMAIN src : HasMatch(src[i])}
        IN IF with = {}
           THEN call.res = Unknown
           ELSE call.res = FirstMatch(src[CHOOSE i \in with : \A j \in with : i <= j])

\* C16: on a page that presents a new tile at every poll the pass still ends:
\* at most SafetyClickCap (200) clicks are attempted, the poll after the last of
\* them leaves the loop, and the step that follows queues the rows recorded so
\* far (to the sink, or to APPEND_BUFFER when the append fails).
C16_ClicksCapped ==
    /\ safety_clicks <= SafetyClickCap + 1
    /\ (pc \in {"click", "poll", "record", "back"}) => safety_clicks <= SafetyClickCap
    /\ Cardinality(processed_fps) <= SafetyClickCap
    /\ (pc = "post_loop" /\ safety_clicks > SafetyClickCap) =>
          /\ per_card_rows = CURRENT_CARD_BUFFER
          /\ added_total = Len(per_card_rows)

C16_CapQueuesRows ==
    (pc = "post_loop" /\ safety_clicks > SafetyClickCap /\ pc' # "post_loop") =>
        \/ sink' = sink \o per_card_rows
        \/ sink' = sink /\ APPEND_BUFFER' = APPEND_BUFFER \o per_card_rows

C16_SafetyCap ==
    /\ [](C16_ClicksCapped)
    /\ [][C16_CapQueuesRows]_vars
    /\ <>(pc \notin PassPcs)

\* the safety stop has ended a pass that recorded rows
C16_Witness ==
    /\ pc = "post_loop"
    /\ safety_clicks = SafetyClickCap + 1
    /\ Cardinality(processed_fps) = SafetyClickCap
    /\ Len(per_card_rows) >= 1


\* ---- C17
\* the tile the pass has picked was not picked for a click before in the pass:
\* no fingerprint in the processed set belongs to it
C17_TileNotAttemptedBefore ==
    (pc \in {"click", "poll", "record", "back"}) =>
        /\ picked_fp \notin processed_fps
        /\ TileOf(picked_fp) \notin TilesOf(processed_fps)

\* a failed click puts the picked fingerprint in the processed set, records no
\* row and goes on with the next poll of the same pass
C17_FailedClickStep ==
    (pc = "click" /\ pc' = "scan") =>
        /\ picked_fp \in processed_fps'
        /\ UNCHANGED <<per_card_rows, per_card_keys, added_total, bufVars,
                       sheetVars, existing_rows, cardVars>>

\* C17: within one pass an element is attempted at most once: after a click
\* attempt on a tile, successful or failed, its fingerprint is in the processed
\* set, and an element whose tile fingerprint is in the processed set is
\* skipped, not clicked again; a failed click records no row and the loop
\* continues with the next element.
C17_AttemptedOnce == [](C17_TileNotAttemptedBefore) /\ [][C17_FailedClickStep]_vars


\* ---- C18
\* the ledger is read from the sink only before the first card of the run, and
\* while cards are processed it only grows, by rows the running pass has queued
C18_LedgerStep ==
    /\ (pc = "load" /\ pc' = "nav") => roundNo = 1
    /\ (pc \in CardPcs /\ pc' \in CardPcs) =>
          /\ existing_rows \subseteq existing_rows'
          /\ (existing_rows' \ existing_rows) \subseteq SeqToSet(per_card_rows')

\* C18: during one run of main the sink's rows are read to form the dedup
\* baseline exactly once, before the first card is processed; afterwards the
\* baseline is only extended in memory with the keys of rows produced in the
\* run and is never reloaded from the sink.
C18_BaselineLoadedOnce == [][C18_LedgerStep]_vars

\* ---- C19
\* calls of go_to_categories_for made for a card in the run so far
NavAttempts(c) ==
    IF pc = "load" THEN roundNo - 1 ELSE (roundNo - 1) + Count(attempted, c)

\* C19: in one run each account id of ACCOUNT_IDS drives exactly one iteration
\* of process_cards' loop (one navigation attempt, at most one enrollment
\* pass), and the ids are visited in list order.
C19_OneIterationPerCard ==
    (pc \in TryPcs) =>
        /\ \A c \in Cards : NavAttempts(c) <= 1
        /\ (pc = "normalize") => \A c \in Cards : NavAttempts(c) = 1
        /\ (pc # "load") => \A i \in DOMAIN attempted : attempted[i] = i


\* ---- C20
MaintenancePcs == {"normalize", "dedupe", "reset_filter"}
AfterTryPcs == {"finally", "cleanup", "blocked", "exited"}

\* maintenance is entered from the last card of the last process_cards call
\* only, its steps follow each other in the order normalize, dedupe, reset
\* filter, and neither maintenance nor what follows main's try body leads back
\* to a card
C20_MaintenanceStep ==
    /\ (pc' \in MaintenancePcs /\ pc \notin MaintenancePcs) =>
          /\ pc' = "normalize"
          /\ pc \in {"nav", "scan", "poll", "record", "back", "post_loop"}
          /\ cardIdx = NumCards /\ roundNo = ProcessCardsCalls
    /\ (pc \in MaintenancePcs /\ pc' \in MaintenancePcs /\ pc' # pc) =>
          \/ pc = "normalize" /\ pc' = "dedupe"
          \/ pc = "dedupe" /\ pc' = "reset_filter"
    /\ (pc \in MaintenancePcs \cup AfterTryPcs) =>
          pc' \in MaintenancePcs \cup AfterTryPcs

\* dedupe_rows is handed a sheet whose date cells are normalised; a run whose
\* try body ends normally has run dedupe_rows and left the filter on the full
\* sheet;
\* a run in which login was not detected has changed nothing in the sheet
C20_MaintenanceState ==
    /\ lastDedupe.done => \A i \in DOMAIN lastDedupe.pre :
                              NormRow(lastDedupe.pre[i]) = lastDedupe.pre[i]
    /\ (exitPath = "normal") =>
          /\ lastDedupe.done
          /\ fatalFrom = "maintenance"
          /\ (pc = "finally") => filterEnd = Len(sink)
    /\ (exitPath = "nologin") =>
          /\ fatalFrom = "login"
          /\ ~lastDedupe.done
          /\ sink = <<HEADER>> \o sink0
          /\ filterEnd = Len(sink)

\* C20: in a run where login is detected and no fatal error occurs, sheet
\* maintenance starts only after the last card has been processed and runs in
\* the order normalize dates, remove exact duplicates, reset filter; no card is
\* processed once maintenance has started, and maintenance is not run at all
\* when login is not detected.
C20_MaintenanceLast == [](C20_MaintenanceState) /\ [][C20_MaintenanceStep]_vars

\* a run that found a denormalised row and a duplicate in the sheet has ended
\* normally, all three maintenance steps done
C20_Witness ==
    /\ pc = "exited" /\ exitPath = "normal"
    /\ \E i \in DOMAIN sink0 : NormRow(sink0[i]) # sink0[i]
    /\ lastDedupe.done /\ lastDedupe.ret >= 1
    /\ \A i \in DOMAIN sink : NormRow(sink[i]) = sink[i]
    /\ filterEnd = Len(sink)


\* ---- C21
\* C21: after _ws returns for a worksheet, row 1 of that worksheet equals the
\* required header tuple, for every initial content of the worksheet (row 1
\* empty with or without data rows below, row 1 mismatched, row 1 already
\* correct); a correct header row causes no write.
C21_HeaderEnforced ==
    (pc = "ws_done") =>
        /\ row_values(call.ws, 1) = headers
        /\ (row_values(call.ws0, 1) = headers) =>
              (call.writes = <<>> /\ call.ws = call.ws0)


\* ---- C22
\* the count kept by the pass is the number of rows it holds for the card
C22_CountIsRows == added_total = Len(per_card_rows)

\* a failed click and a row whose key is in the ledger leave the count as it
\* is; the pass returns (line 998) with its rows appended to the sink or added
\* to APPEND_BUFFER, and with nothing else written to either
C22_CountStep ==
    /\ (pc = "click" /\ pc' = "scan") => added_total' = added_total
    /\ (pc = "record" /\ pc' \in {"back", "scan"}) =>
          added_total' - added_total = Len(per_card_rows') - Len(per_card_rows)
    /\ (pc = "record" /\ pc' \in {"back", "scan"} /\ existing_rows' = existing_rows) =>
          added_total' = added_total
    /\ (pc = "post_loop" /\ pc' \in {"nav", "load", "normalize"}) =>
          /\ sink' \in {sink, sink \o per_card_rows}
          /\ APPEND_BUFFER' \in {APPEND_BUFFER, APPEND_BUFFER \o per_card_rows}
          /\ (added_total > 0) => (sink' # sink \/ APPEND_BUFFER' # APPEND_BUFFER)
          /\ Len(sink') - Len(sink) \in {0, added_total}
          /\ Len(APPEND_BUFFER') - Len(APPEND_BUFFER) \in {0, added_total}

\* C22: the value returned by enroll_all_offers_for_current_card equals the
\* number of rows it queued for that card (appended to the sink or re-buffered
\* for retry); a row suppressed by dedup and an element whose click failed are
\* not counted.
C22_ReturnsRowsQueued == [](C22_CountIsRows) /\ [][C22_CountStep]_vars

\* a pass is about to return 1 after two tiles: one gave a row, the other a
\* failed click or a row the ledger held already
C22_Witness ==
    /\ pc = "post_loop"
    /\ added_total = 1 /\ Len(per_card_rows) = 1
    /\ Cardinality(processed_fps) = 2


\* ---- C23
OFFER_HEADERS == <<"Card Holder", "Last Four", "Card Name", "Brand", "Discount",
                   "Maximum Discount", "Minimum Spend", "Date Added",
                   "Expiration", "Local">>
\* the texts the discount pattern is run over for the row
RowDiscountSources(in) ==
    IF in.navigated THEN <<in.header_disc, in.tile_text, in.terms.disc>>
    ELSE <<in.tile_text>>

\* C23: every row queued by the pass, on the detail path and on the tile-only
\* path, has exactly 10 fields in the schema order, and its brand, discount
\* and minimum-spend fields are never empty: when extraction finds nothing
\* they hold "Unknown Brand", "Unknown" and "None", while maximum discount and
\* expiration fall back to the empty text.
C23_RowSchema ==
    (pc = "row_done") =>
        LET in == call.in
            row == call.row
            onDetail == in.navigated
        IN /\ Len(row) = Len(OFFER_HEADERS)
           /\ row[1] = HOLDER
           /\ row[2] = (IF onDetail THEN in.card[2] ELSE "XXXX")
           /\ row[3] = (IF onDetail THEN in.card[1] ELSE CARD_NAME_DEFAULT)
           /\ row[4] \in {"Acme", BRAND_FALLBACK}
           /\ (in.hook = "" /\ in.tile_brand_guess = "") <=> row[4] = BRAND_FALLBACK
           /\ row[5] # <<>>
           /\ (\A i \in DOMAIN RowDiscountSources(in) :
                   ~HasMatch(RowDiscountSources(in)[i])) => row[5] = Unknown
           /\ row[6] \in {"", "$50", "$75"}
           /\ (~onDetail \/ (in.terms.max1 = "" /\ in.terms.max2 = "")) => row[6] = ""
           /\ row[7] \in {"None", "$25", "$10"}
           /\ (~onDetail \/ (in.terms.spend = "" /\ HdrAmount(in.header_lim) = ""))
                 => row[7] = "None"
           /\ row[8] = strftime_bdY(RowToday)
           /\ (~onDetail \/ \A i \in DOMAIN in.terms.exp : ~Parseable(in.terms.exp[i]))
                 => row[9] = NoDate
           /\ row[10] \in {"Yes", "No"}


\* ---- C24
\* the call has been made for the page in call.in
CatCalled == call.fn = "go_to_categories_for"
HubOpened(in) == in.nav = "True" /\ in.shell = "True"

\* True needs the hub, the categories route with the account id in the URL and
\* one probe, in the first wait or after the nudge; one probe in the first
\* wait is enough, whatever the card selection did; without the hub the call
\* ends without a readiness wait
C24_ReadyResult ==
    CatCalled =>
        LET in == call.in
        IN /\ (call.res = "True") =>
                 /\ HubOpened(in)
                 /\ \/ in.c1 /\ (in.a1 \/ in.h1)
                    \/ in.link /\ in.c2 /\ (in.a2 \/ in.h2)
           /\ (HubOpened(in) /\ in.c1 /\ (in.a1 \/ in.h1)) => call.res = "True"
           /\ ~HubOpened(in) => (call.res # "True" /\ call.waits = 0)
           /\ (in.nav = "False" \/ (in.nav = "True" /\ in.shell = "False")) =>
                 call.res = "False"

\* the pass is entered for a card only when the call returned True
C24_PassStep ==
    (CatCalled /\ pc = "nav" /\ pc' = "enroll_start") => call.res = "True"

\* C24: go_to_categories_for returns True only if, within its bounded waits,
\* the current URL is the categories route containing acc_id and at least one
\* readiness probe matched (any single probe suffices); it returns False without
\* waiting for readiness when the hub cannot be opened, the pass is never run
\* for a card for which it returned False, and a failed card selection alone
\* does not make it return False.
C24_CategoriesReady == [](C24_ReadyResult) /\ [][C24_PassStep]_vars

\* the card selection failed, only the categories shell was found, and the
\* pass starts
C24_Witness ==
    /\ CatCalled /\ pc = "enroll_start"
    /\ call.res = "True"
    /\ ~call.in.selected /\ call.in.c1 /\ ~call.in.a1 /\ call.in.h1


\* ---- C25
\* no fingerprint is in the processed set when a pass starts, so its first poll
\* skips no tile, and the set holds fingerprints of tiles the running pass
\* picked only
C25_FpsOfThisPass ==
    /\ (pc \in {"load", "nav", "enroll_start"}) => processed_fps = {}
    /\ (pc = "scan" /\ safety_clicks = 0) => processed_fps = {}
    /\ Cardinality(processed_fps) <= safety_clicks
    /\ (pc = "scan" /\ safety_clicks = 0) => Unprocessed(processed_fps) = Fps

\* from card to card the ledger keeps every key it holds
C25_LedgerStep ==
    (pc \in CardPcs /\ pc' \in CardPcs) => existing_rows \subseteq existing_rows'

\* C25: the set of processed tile fingerprints is scoped to a single pass: it
\* is empty at the start of every call of enroll_all_offers_for_current_card,
\* so a tile handled for one card never causes a tile with the same fingerprint
\* to be skipped on a later card or pass, whereas the dedup ledger of row keys
\* persists across cards.
C25_FpsScopedToPass == [](C25_FpsOfThisPass) /\ [][C25_LedgerStep]_vars

\* the pass of the second card clicks the tile with the first fingerprint while
\* the ledger holds a row the first card's pass recorded
C25_Witness ==
    /\ pc = "click" /\ cardIdx = 2 /\ roundNo = 1
    /\ picked_fp = 1 /\ processed_fps = {}
    /\ sink0 = <<>> /\ existing_rows # {} /\ per_card_rows = <<>>


\* ---- C26
\* the pass ends and process_cards moves on (lines 987-998)
PassReturns == pc = "post_loop" /\ pc' \in {"nav", "load", "normalize"}

\* C26: in enroll_all_offers_for_current_card the card's rows are added to
\* APPEND_BUFFER for retry only if the sink append itself failed: when the
\* append succeeds and the filter reset that follows fails, APPEND_BUFFER is
\* left unchanged and the appended rows are not queued again.
C26_RebufferOnlyFailedAppend ==
    [][PassReturns => (sink' # sink => APPEND_BUFFER' = APPEND_BUFFER)]_vars

\* ---- C27
\* C27: if the per-card sink append fails (and no filter reset fails), the
\* failed rows are pending in exactly one buffer, so that the next flush_buffer,
\* when the sink accepts it, appends each of those rows to the sink exactly
\* once; this holds also when the failing card is the last card of the run.
C27_PendingInOneBuffer ==
    /\ (pc \in TryPcs \ {"scan", "click", "poll", "record", "back", "post_loop"}) =>
          SeqToSet(APPEND_BUFFER) \cap SeqToSet(CURRENT_CARD_BUFFER) = {}
    /\ (pc = "cleanup" /\ lastFlush.done /\ lastFlush.failAt = 0) =>
          \A r \in SeqToSet(lastFlush.pre) :
              Count(AppendedRows(lastFlush.calls), r) = 1


\* ---- C28
\* C28: in every run in which main reaches and completes sheet maintenance, the
\* sink holds no two identical data rows when main has finished its final
\* flush, for every pattern of transient sink-append failures earlier in the
\* run (no append after duplicate removal reintroduces a duplicate).
C28_NoDuplicatesAtExit ==
    (exitPath = "normal" /\ pc \in {"cleanup", "blocked", "exited"}) =>
        \A i, j \in DOMAIN DataRows(sink) :
            DataRows(sink)[i] = DataRows(sink)[j] => i = j


\* ---- C29
LoopPcs == {"scan", "click", "poll", "record", "back"}

\* inside the loop CURRENT_CARD_BUFFER holds the rows recorded for the card
C29_RowsInCardBuffer == (pc \in LoopPcs) => CURRENT_CARD_BUFFER = per_card_rows

\* an interrupt inside the loop leaves both buffers as they are, and the flush
\* in main's finally clause, when the sink accepts every chunk, appends the
\* rows of both
C29_InterruptStep ==
    /\ (pc \in LoopPcs /\ pc' \notin CardPcs /\ exitPath' = "interrupt") =>
          /\ pc' = "finally"
          /\ UNCHANGED <<bufVars, sheetVars>>
    /\ (pc = "finally" /\ pc' = "cleanup" /\ lastFlush'.failAt = 0) =>
          /\ sink' = sink \o APPEND_BUFFER \o CURRENT_CARD_BUFFER
          /\ APPEND_BUFFER' = <<>> /\ CURRENT_CARD_BUFFER' = <<>>

\* C29: if an operator interrupt arrives while the pass is inside its loop,
\* every row recorded so far for that card is held in CURRENT_CARD_BUFFER and
\* is appended to the sink by the final flush in main, provided the sink
\* accepts the append.
C29_InterruptFlushesCard == [](C29_RowsInCardBuffer) /\ [][C29_InterruptStep]_vars

\* a run interrupted inside the loop after one row was recorded, that row in
\* the sink after the flush
C29_Witness ==
    /\ pc = "cleanup" /\ exitPath = "interrupt" /\ fatalFrom = "cards"
    /\ lastFlush.done /\ lastFlush.failAt = 0 /\ lastFlush.pre = <<1>>
    /\ sink0 = <<>> /\ sink = <<HEADER, 1>>
    /\ APPEND_BUFFER = <<>> /\ CURRENT_CARD_BUFFER = <<>>


\* ---- C30
\* a step in which the script starts typing the password
TypingStarts == call'.typedAt # call.typedAt

C30_TypingStep ==
    /\ TypingStarts =>
          /\ call'.on2fa
          /\ ~call.done
          /\ call.typedAt = Never \/ call'.typedAt - call.typedAt >= RetryGap
    /\ (call'.done /\ ~call.done) => call'.field = PwLen
    /\ call.done => call'.done

\* C30: maybe_fill_password_on_2fa types the password only while the current
\* URL is the 2FA page, never again once the done flag is set, and never starts
\* two typing attempts less than 6 seconds apart; the done flag is set only
\* when the password field holds the complete password.
C30_PasswordOnce == [][C30_TypingStep]_vars

\* ---- C31
\* C31: in the Amex script the value returned by add_all_offers_for_current_card
\* equals the number of offers whose add button was actually clicked in that
\* pass; an iteration whose click raises does not increase the returned count.
C31_ReturnCountsClicks ==
    pc = "amex_flush" => call.ret = call.lastClicked

\* ---- C32
\* C32: the Amex pending buffer is flushed as soon as it reaches MICRO_BATCH
\* rows: at the start of every iteration of the add loop it holds fewer than
\* MICRO_BATCH rows, and after main's flush following a pass it is empty.
C32_BufferBelowBatch ==
    /\ pc = "amex_loop" => call.buf < MICRO_BATCH
    /\ pc \in {"amex_rounds", "amex_pass", "amex_done", "amex_failed"} => call.buf = 0

\* a pass queued more rows than one batch: the loop flushed the first three,
\* main's flush sent the rest
C32_Witness ==
    /\ pc = "amex_rounds"
    /\ call.added_count > MICRO_BATCH
    /\ call.sheet = call.added_count
    /\ call.buf = 0

\* ---- C33
\* a step of main that refreshes the page
AmexRefreshes == call'.refreshes # call.refreshes

C33_RefreshStep ==
    /\ AmexRefreshes => (call.lastClicked >= 1 /\ call.flushed)
    /\ (pc' = "amex_loop" /\ pc = "amex_pass") => call.flushed
    /\ call'.passes <= 1 + call'.max

\* C33: the Amex main performs at most 1 + MAX_REFRESH_ROUNDS enrollment
\* passes, refreshes the page only after a pass that added at least one offer,
\* and calls flush_buffer after every pass before any refresh.
C33_RefreshCycle == [][C33_RefreshStep]_vars

\* ---- C34
\* C34: in the first Chase script process terminates whenever the page presents
\* a finite set of plus icons: an icon whose key is already in the loaded key
\* set is skipped, the loop goes on to the remaining icons and ends.
C34_ProcessTerminates == <>(pc \in {"process_done", "process_failed"})

\* ---- C35
\* C35: every key that process persisted to the dedup file with save_key has
\* its row appended to the sink by the time process ends or fails.
C35_SavedKeysHaveRows ==
    pc \in {"process_done", "process_failed"} => call.saved \subseteq SeqToSet(call.sheet)

\* ---- C36
\* the 1-based sheet column of a header
ColumnOf(name) == CHOOSE c \in DOMAIN OFFER_HEADERS : OFFER_HEADERS[c] = name
DateSheetColumns == {ColumnOf("Date Added"), ColumnOf("Expiration")}

\* C36: normalize_sheet_dates is idempotent: run twice in succession on any
\* sheet, the second run performs no cell update; it writes only to the Date
\* Added and Expiration columns of data rows, and a cell whose text cannot be
\* parsed as a date is left unchanged.
C36_NormalizeIdempotent ==
    /\ pc = "dates_done" => call.writes = <<>>
    /\ \A r \in DOMAIN call.rows, c \in 1..SheetCols :
          \/ call.rows[r][c] = call.before[r][c]
          \/ /\ r >= 2
             /\ c \in DateSheetColumns
             /\ try_parse_date_any(strip(call.before[r][c]), call.today) # NoDay
    /\ \A i \in DOMAIN call.writes :
          call.writes[i][1] >= 2 /\ call.writes[i][2] \in DateSheetColumns

\* two complete runs: the first rewrote a relative and a differently written
\* date, left a word alone, the second wrote nothing
C36_Witness ==
    /\ pc = "dates_done"
    /\ Len(call.first) >= 2
    /\ call.rows # call.before
    /\ \E r \in 2..Len(call.rows) :
          /\ call.before[r][ColumnOf("Date Added")].kind = "days"
          /\ call.rows[r][ColumnOf("Date Added")].kind = "abs"
          /\ call.before[r][ColumnOf("Expiration")].kind = "abs"
          /\ call.rows[r][ColumnOf("Expiration")] # call.before[r][ColumnOf("Expiration")]
    /\ call.writes = <<>>

====
